---- MODULE Spec2Model ----
(***************************************************************************)
(* Silent Organizer: the orchestrator (organize_file / undo), the move     *)
(* primitive (_safe_move_file) and the ActivityLog with its lock, as a     *)
(* state machine.  Threads call organize_file and undo concurrently; the   *)
(* environment creates and deletes files and lets time pass.               *)
(*                                                                         *)
(* A path is <<directory, n>>: the one file name of the model in that      *)
(* directory, n = 0 for the literal name, n >= 1 for the " (n)" variant,   *)
(* n = ProbeLimit for the process-id variant.                              *)
(*                                                                         *)
(* The log document can be read and written: _read_entries_unlocked and    *)
(* _write_entries_unlocked do not take their except branches, but in       *)
(* LogFileSpec, where the write may fail.  Failures of os.link, of the     *)
(* copy and of fsync are choices of the environment.                       *)
(*                                                                         *)
(* Spec: threads call organize_file and undo; the rules document is a JSON *)
(* object.  CrashSpec: the same, and the process may be killed.            *)
(* LogFileSpec: the rewrite of the log document step by step, with I/O     *)
(* errors and kills.  MoverSpec: two calls of _safe_move_file for the same *)
(* destination.  WatcherSpec: the observer and the worker of FileWatcher,  *)
(* the worker calling handle_stable_file.  PollSpec / FairPollSpec: the    *)
(* watcher poll by poll, with file names and stop().  DecideSpec:          *)
(* RuleEngine.decide on every rules document of the bounds.  RulesSpec:    *)
(* the rules document edited and reloaded.  NotifySpec: the handlers of    *)
(* the observer and the debounce, on a clock finer than the window.        *)
(* ServeSpec / FairServeSpec: the worker of the watcher and the API thread *)
(* calling undo on the one Organizer.  NameSpec:                           *)
(* generate_non_overwriting_path on every file system of the bounds.       *)
(*                                                                         *)
(* ActivityLog._lock is a threading.Lock: a thread that holds it and asks  *)
(* for it again waits for ever.  undo_last_24h does so when it calls       *)
(* append_planned, so what follows that call in undo_last_24h is modelled  *)
(* (AfterLog, MoveRaise, MoveReturn, UndoReturn) and never reached.        *)
(***************************************************************************)
EXTENDS Integers, Sequences, FiniteSets, TLC

VARIABLES
    fs,          \* the file system: path -> file
    dirs,        \* directories that exist
    log,         \* the persisted log document (activity_log.json): a sequence of entries
    lockHolder,  \* ActivityLog._lock: the thread holding it, or NoThread
    th,          \* per thread: position in the code and local variables
    now,         \* _utc_now(), in hours
    nextId,      \* the next uuid4 (every call yields a fresh one)
    baseDir,     \* rules["base_destination"]
    calls,       \* operations started so far
    envSteps,    \* environment steps so far
    relDest,     \* the destination_relative of the category that rules.json gives the file
    tmp,         \* the temporary file beside the log document (activity_log.json.tmp)
    logWhole,    \* the log document on disk is a complete JSON document
    wqueue,      \* FileWatcher._queue
    lastSeen,    \* FileWatcher._last_seen
    wclock,      \* time.time(), in seconds
    notified,    \* notifications delivered by the observer so far
    cbCount,     \* calls of on_stable_file so far
    stopEvent,   \* FileWatcher._stop_event is set
    stopPc,      \* the position of the caller of FileWatcher.stop()
    wk,          \* the worker of FileWatcher: position and locals of _wait_until_stable
    fsize,       \* st_size of the watched file, or NoSize when it is not there
    quiet,       \* polls of the worker since the size of the watched file last changed
    rulesFile,   \* the rules document on disk (rules.json)
    rules,       \* RuleEngine.rules
    file,        \* the file given to RuleEngine.decide
    decision,    \* what RuleEngine.decide returned
    reloads      \* calls of Organizer.reload_rules so far

cfgVars == <<baseDir, relDest>>
docVars == <<tmp, logWhole>>
watchVars == <<wqueue, lastSeen, wclock, notified, cbCount>>
pollVars == <<stopEvent, stopPc, wk, fsize, quiet>>
ruleVars == <<rulesFile, rules, file, decision, reloads>>
extVars == <<pollVars, ruleVars>>

vars == <<fs, dirs, log, lockHolder, th, now, nextId, calls, envSteps,
          cfgVars, docVars, watchVars, extVars>>

----------------------------------------------------------------------------
(* Bounds of the model *)

MaxCalls == 3
MaxEnv == 1
MaxTicks == 1
TickHours == 25
ProbeLimit == 3
MaxNotify == 3
MaxClock == 3

(* timedelta(hours=24) *)
UndoWindowHours == 24

(* debounce_seconds: float = 1.0 *)
DebounceSeconds == 1

Threads == {"t1", "t2"}
NoThread == "none"

DownloadsDir == "dl"
HomeDest == "dest"
OutsideDest == "out"
Dirs == {DownloadsDir, HomeDest, OutsideDest}
AllowedRoots == {DownloadsDir, HomeDest}

Paths == Dirs \X (0..ProbeLimit)
NoPath == <<"none", 0>>
SourcePath == <<DownloadsDir, 0>>

(* A file: its content, whether the content is all there, and whether it has
   reached the disk (os.fsync) *)
NoFile == [data |-> 0, full |-> FALSE, synced |-> FALSE]
File(c) == [data |-> c, full |-> TRUE, synced |-> TRUE]
PartialFile(c) == [data |-> c, full |-> FALSE, synced |-> FALSE]
UnsyncedFile(c) == [data |-> c, full |-> TRUE, synced |-> FALSE]

Exists(f, p) == f[p] # NoFile

----------------------------------------------------------------------------
(* path_utils *)

(* every path passes *)
validate_any_path(p) == TRUE

validate_destination_path(p) == p[1] \in AllowedRoots

FreeProbes(f, d) == {i \in 1..(ProbeLimit - 1) : ~Exists(f, <<d, i>>)}

Smallest(S) == CHOOSE i \in S : \A j \in S : i <= j

(* the candidate with the largest free number is returned *)
generate_last_free_path(f, p) ==
    IF ~Exists(f, p) THEN p
    ELSE IF FreeProbes(f, p[1]) # {}
         THEN <<p[1], CHOOSE i \in FreeProbes(f, p[1]) :
                          \A j \in FreeProbes(f, p[1]) : j <= i>>
    ELSE <<p[1], ProbeLimit>>

generate_non_overwriting_path(f, p) ==
    IF ~Exists(f, p) THEN p
    ELSE IF FreeProbes(f, p[1]) # {} THEN <<p[1], Smallest(FreeProbes(f, p[1]))>>
    ELSE <<p[1], ProbeLimit>>

----------------------------------------------------------------------------
(* ActivityLog: entries and the operations on the entry list *)

NoEntry ==
    [id |-> 0, ts |-> 0, status |-> "none", action |-> "none",
     source |-> NoPath, destination |-> NoPath, undone |-> FALSE,
     undo_action_id |-> 0, original_action_id |-> 0, note |-> ""]

(* the entry is written as completed before its action has run *)
PlannedRecordAsCompleted(id, ts, action, src, dst, orig, note) ==
    [NoEntry EXCEPT !.id = id, !.ts = ts, !.status = "completed", !.action = action,
                    !.source = src, !.destination = dst,
                    !.original_action_id = orig, !.note = note]

PlannedRecord(id, ts, action, src, dst, orig, note) ==
    [NoEntry EXCEPT !.id = id, !.ts = ts, !.status = "planned", !.action = action,
                    !.source = src, !.destination = dst,
                    !.original_action_id = orig, !.note = note]

CompletedRecord(id, ts, action, src, dst, note) ==
    [NoEntry EXCEPT !.id = id, !.ts = ts, !.status = "completed", !.action = action,
                    !.source = src, !.destination = dst, !.note = note]

(* the record is built and never added to the list *)
AppendRecordDropped(entries, rec) == entries

(* the record is put in front of the list *)
AppendRecordInFront(entries, rec) == <<rec>> \o entries

AppendRecord(entries, rec) == Append(entries, rec)

(* the newest entry is taken, whatever its id *)
LastWithIdUnchecked(entries, id) == Len(entries)

(* for e in reversed(entries): if e.get("id") == entry_id: ...; break *)
LastWithId(entries, id) ==
    LET S == {i \in 1..Len(entries) : entries[i].id = id}
    IN IF S = {} THEN 0 ELSE CHOOSE i \in S : \A j \in S : j <= i

mark_completed(entries, id) ==
    LET i == LastWithId(entries, id)
    IN IF i = 0 THEN entries
       ELSE [entries EXCEPT ![i].status = "completed"]

(* a failed move is recorded as completed *)
mark_failed_as_completed(entries, id, error) == mark_completed(entries, id)

mark_failed(entries, id, error) ==
    LET i == LastWithId(entries, id)
    IN IF i = 0 THEN entries
       ELSE [entries EXCEPT ![i].status = "failed", ![i].note = error]

ApplyOp(entries, op, arg) ==
    CASE op = "append" -> AppendRecord(entries, arg)
      [] op = "mark_completed" -> mark_completed(entries, arg.id)
      [] op = "mark_failed" -> mark_failed(entries, arg.id, arg.note)
      [] OTHER -> entries

(* undo_last_24h: the newest-first scan for the entry to undo *)
Undoable(e, cutoff) ==
    /\ e.status = "completed"
    /\ e.action = "move"
    /\ ~e.undone
    /\ e.ts >= cutoff
    /\ e.source # NoPath
    /\ e.destination # NoPath

(* the scan runs oldest-first *)
SelectOldestTarget(entries, cutoff) ==
    LET S == {i \in 1..Len(entries) : Undoable(entries[i], cutoff)}
    IN IF S = {} THEN 0 ELSE CHOOSE i \in S : \A j \in S : i <= j

SelectUndoTarget(entries, cutoff) ==
    LET S == {i \in 1..Len(entries) : Undoable(entries[i], cutoff)}
    IN IF S = {} THEN 0 ELSE CHOOSE i \in S : \A j \in S : j <= i

----------------------------------------------------------------------------
(* Threads *)

IdleThread ==
    [pc |-> "idle", call |-> "none", src |-> NoPath, dst |-> NoPath, id |-> 0,
     op |-> "none", arg |-> NoEntry, next |-> "none", res |-> "none",
     snap |-> <<>>, cutoff |-> 0, target |-> 0, data |-> 0, result |-> "none",
     event |-> 0, was |-> "none", entries |-> <<>>]

(* rules.json: base_dest / destination_relative.  A relative destination that
   climbs with ".." or is absolute leads out of the base destination *)
RelDests == {"Misc", "Escape"}

dest_dir(base, rel) == IF rel = "Escape" THEN OutsideDest ELSE base

(* The temporary file beside the log document *)
NoDoc == [present |-> FALSE, entries |-> <<>>, whole |-> FALSE]
Doc(entries, whole) == [present |-> TRUE, entries |-> entries, whole |-> whole]

(* No write of the log document is under way *)
LogFileInit ==
    /\ tmp = NoDoc
    /\ logWhole = TRUE

(* FileWatcher.__init__: nothing queued, nothing seen *)
WatcherIdle ==
    /\ wqueue = <<>>
    /\ lastSeen = [p \in {SourcePath} |-> 0]
    /\ wclock = 1
    /\ notified = 0
    /\ cbCount = [c \in 1..(MaxEnv + 1) |-> 0]

----------------------------------------------------------------------------
(* RuleEngine (rule_engine.py): load and decide, and Organizer.reload_rules.
   Scores and confidences are counted in hundredths: 0.35 is 35. *)

MaxCats == 2
MaxReloads == 2

(* score += 0.35 *)
ExtensionScore == 35

(* 0.2 + keyword_hits * 0.12 *)
KeywordBase == 20

KeywordStep == 12

(* min(0.55, ...) *)
KeywordCap == 55

(* score += 0.08 *)
EducationBoost == 8

(* best_score >= 0.35 *)
MinScore == 35

(* confidence=0.25 *)
FallbackConfidence == 25

(* min(0.99, max(0.0, best_score)) *)
MaxConfidence == 99

Min2(a, b) == IF a < b THEN a ELSE b

Max2(a, b) == IF a > b THEN a ELSE b

(* self.rules.get(...) when self.rules is no dict: AttributeError *)
Raised == [category_name |-> <<"AttributeError", 0>>, destination_relative |-> "",
           confidence |-> 0]

NoDecision == [category_name |-> <<"", 0>>, destination_relative |-> "",
               confidence |-> 0]

(* A JSON value where a list is expected: a list of items, or something else *)
JsonList(s) == [list |-> TRUE, items |-> s]

NotAList == [list |-> FALSE, items |-> {}]

Keywords == {"invoice", "report", "tax"}

Extensions == {".pdf"}

(* "keywords" that is no list *)
NoKeywordList == [list |-> FALSE, items |-> <<>>]

(* "keywords": the list as written, in which a keyword may come twice *)
KeywordValues ==
    {NoKeywordList, JsonList(<<>>), JsonList(<<"invoice">>),
     JsonList(<<"invoice", "invoice">>), JsonList(<<"invoice", "report">>),
     JsonList(<<"invoice", "report", "tax">>)}

ExtensionValues == {NotAList, JsonList({}), JsonList(Extensions)}

(* An item of "categories": a JSON object, or something else.  A category is
   named <<"Category", i>> after its position i in the list. *)
NotADict == [dict |-> FALSE, destination |-> "", keywords |-> NoKeywordList,
             extensions |-> NotAList]

CategoryValues ==
    {NotADict} \cup
    [dict : {TRUE}, destination : {"", "Docs"}, keywords : KeywordValues,
     extensions : ExtensionValues]

CategoryLists ==
    UNION {[1..n -> CategoryValues] : n \in 0..MaxCats}

(* The file given to decide: its suffix, the keywords its name contains, and
   whether its stem has one of the education tokens *)
Files ==
    [ext : {""} \cup Extensions,
     contains : {{}, {"invoice"}, {"invoice", "report"}, Keywords},
     edu_token : BOOLEAN]

(* What json.loads may give: an object, or another JSON value *)
NotAnObject == [object |-> FALSE]

RuleObject(edu, cats, fb) ==
    [object |-> TRUE, education_mode |-> edu, categories |-> cats,
     fallback_destination |-> fb]

RuleValues ==
    {NotAnObject} \cup
    {RuleObject(edu, cats, fb) :
        edu \in BOOLEAN,
        cats \in {NotAList} \cup {[list |-> TRUE, items |-> c] : c \in CategoryLists},
        fb \in {"", "Other"}}

(* The rules document on disk *)
Unreadable == [kind |-> "unreadable", value |-> NotAnObject]

Unparsable == [kind |-> "unparsable", value |-> NotAnObject]

JsonDoc(v) == [kind |-> "json", value |-> v]

(* load: the rules of the except clause *)
DefaultRules == RuleObject(TRUE, JsonList(<<>>), "Misc")

(* RuleEngine.load catches every exception of read_text and json.loads *)
load_raises(doc) == FALSE

(* RuleEngine.load: read_text and json.loads in a try; on any exception the
   hardcoded rules.  It never raises. *)
load(doc) ==
    IF doc.kind = "json" THEN doc.value ELSE DefaultRules

(* the score of one category for the file *)
Score(cat, f, education_mode) ==
    LET ext_part == IF cat.extensions.list /\ f.ext # ""
                       /\ f.ext \in cat.extensions.items
                    THEN ExtensionScore ELSE 0
        keyword_hits == IF cat.keywords.list
                        THEN Cardinality({i \in 1..Len(cat.keywords.items) :
                                             cat.keywords.items[i] \in f.contains})
                        ELSE 0
        kw_part == IF keyword_hits > 0
                   THEN Min2(KeywordCap, KeywordBase + keyword_hits * KeywordStep)
                   ELSE 0
        edu_part == IF education_mode /\ f.edu_token THEN EducationBoost ELSE 0
    IN ext_part + kw_part + edu_part

(* a category of the same score takes the place of the best so far *)
BetterOrEqual(score, best_score) == score >= best_score

(* score > best_score *)
Better(score, best_score) == score > best_score

(* for cat in categories: ... if destination and score > best_score: ...
   best is <<best_score, position of the best category or 0>> *)
RECURSIVE ScanCategories(_, _, _, _, _)
ScanCategories(cats, f, education_mode, i, best) ==
    IF i > Len(cats) THEN best
    ELSE LET cat == cats[i]
             score == Score(cat, f, education_mode)
         IN IF cat.dict /\ cat.destination # "" /\ Better(score, best[1])
            THEN ScanCategories(cats, f, education_mode, i + 1, <<score, i>>)
            ELSE ScanCategories(cats, f, education_mode, i + 1, best)

(* RuleEngine.decide *)
decide(rl, f) ==
    IF ~rl.object THEN Raised
    ELSE LET categories == IF rl.categories.list THEN rl.categories.items ELSE <<>>
             best == ScanCategories(categories, f, rl.education_mode, 1, <<0, 0>>)
         IN IF best[2] # 0 /\ best[1] >= MinScore
            THEN [category_name |-> <<"Category", best[2]>>,
                  destination_relative |-> categories[best[2]].destination,
                  confidence |-> Min2(MaxConfidence, Max2(0, best[1]))]
            ELSE [category_name |-> <<"Fallback", 0>>,
                  destination_relative |->
                      IF rl.fallback_destination = "" THEN "Misc"
                      ELSE rl.fallback_destination,
                  confidence |-> FallbackConfidence]

(* Organizer.__init__: the rules have been loaded once; nothing decided yet *)
RulesLoaded ==
    /\ rulesFile = JsonDoc(DefaultRules)
    /\ rules = load(rulesFile)
    /\ file = [ext |-> "", contains |-> {}, edu_token |-> FALSE]
    /\ decision = NoDecision
    /\ reloads = 0

----------------------------------------------------------------------------
(* FileWatcher (file_watcher.py) step by step: _enqueue_event with the file
   name of the notification, the worker loop, the polls of
   _wait_until_stable, and stop().  A file name is a sequence of pieces, the
   pieces that begin with a dot being written with it: "a.tmp" is
   <<"a", ".tmp">>.  Time in _wait_until_stable is counted in polls: each
   time.sleep is one poll, stability_seconds is StabilityTicks polls and
   max_wait_seconds is MaxWaitTicks polls. *)

StabilityTicks == 2
MaxWaitTicks == 5
MaxSize == 5

NoSize == 0 - 1

NoTime == 0 - 1

NoName == <<>>

(* str.lower() of a piece *)
Lower(piece) ==
    CASE piece = ".TMP" -> ".tmp"
      [] piece = ".PART" -> ".part"
      [] piece = ".DS_Store" -> ".ds_store"
      [] piece = "Thumbs" -> "thumbs"
      [] OTHER -> piece

(* path.name.lower() *)
NameLower(n) == [i \in DOMAIN n |-> Lower(n[i])]

DotPieces ==
    {".pdf", ".db", ".tmp", ".TMP", ".part", ".PART", ".crdownload", ".download",
     ".partial", ".DS_Store", ".ds_store"}

(* pathlib's suffix: the last dot piece of a name that does not begin with it *)
Suffix(n) ==
    IF Len(n) >= 2 /\ n[Len(n)] \in DotPieces THEN n[Len(n)] ELSE ""

(* no name is a temporary file *)
never_temporary(n) == FALSE

(* path_utils.is_temporary_file *)
is_temporary_file(n) ==
    LET name == NameLower(n)
    IN \/ name[1] = "~$"
       \/ name \in {<<".ds_store">>, <<"thumbs", ".db">>}
       \/ Lower(Suffix(n)) \in {".tmp", ".part", ".crdownload", ".download", ".partial"}
       \/ name[Len(name)] \in {".tmp", ".crdownload", ".part"}

RegularName == <<"a", ".pdf">>

(* The file names of the notifications of the model *)
PollNames ==
    {RegularName, <<"a", ".tmp", ".pdf">>, <<"~$", "a", ".pdf">>, <<".DS_Store">>,
     <<"Thumbs", ".db">>, <<"a", ".tmp">>, <<"a", ".TMP">>,
     <<"a", ".part">>, <<"a", ".PART">>, <<"a", ".crdownload">>,
     <<"a", ".download">>, <<"a", ".partial">>}

(* FileEvent: event_type, src_path, dest_path, timestamp_utc *)
FileEvent(event_type, n, dest, ts) ==
    [event_type |-> event_type, path |-> n, dest_path |-> dest, ts |-> ts]

(* The worker holds no event *)
NoEvent == FileEvent("", NoName, NoName, NoTime)

(* The worker before it takes an event: src_path and evt of _worker_loop, the
   locals of _wait_until_stable *)
IdleWorker ==
    [pc |-> "loop", path |-> NoName, evt |-> NoEvent, late |-> FALSE, elapsed |-> 0,
     last_size |-> NoSize, stable_since |-> NoTime]

(* FileWatcher.__init__: stop() has not been called; the watched file is not
   there yet *)
PollIdle ==
    /\ stopEvent = FALSE
    /\ stopPc = "idle"
    /\ wk = IdleWorker
    /\ fsize = NoSize
    /\ quiet = 0

----------------------------------------------------------------------------
(* the log operation goes on without waiting for the lock *)
LockNotTaken(t) == TRUE

LockFree(t) == lockHolder = NoThread

Init ==
    /\ fs = [p \in Paths |-> IF p = SourcePath THEN File(1) ELSE NoFile]
    /\ dirs = {DownloadsDir}
    /\ log = <<>>
    /\ lockHolder = NoThread
    /\ th = [t \in Threads |-> IdleThread]
    /\ now = 0
    /\ nextId = 1
    /\ baseDir \in {HomeDest, OutsideDest}
    /\ relDest \in RelDests
    /\ calls = 0
    /\ envSteps = 0
    /\ LogFileInit
    /\ WatcherIdle
    /\ PollIdle
    /\ RulesLoaded

(* A call of a locked log operation (append_planned, append_completed,
   mark_completed, mark_failed): op and arg say which; next says where the
   caller goes on; res is the result the caller will return. *)
CallLog(r, op, arg, next, res) ==
    [r EXCEPT !.pc = "lock", !.op = op, !.arg = arg, !.next = next, !.res = res]


MarkArg(id, note) == [NoEntry EXCEPT !.id = id, !.note = note]

SetThread(t, r) == th' = [th EXCEPT ![t] = r]

(* The caller's except clause around _safe_move_file: mark the planned entry failed *)
MoveRaise(r, err) ==
    IF r.call = "move"
    THEN [IdleThread EXCEPT !.result = err, !.src = r.src, !.dst = r.dst]
    ELSE IF r.call # "undo"
    THEN CallLog(r, "mark_failed", MarkArg(r.id, err), "return", "move_failed")
    ELSE CallLog(r, "mark_failed", MarkArg(r.id, err), "u_ret", "undo_failed")

(* _safe_move_file returned: mark the planned entry completed *)
MoveReturn(r) ==
    IF r.call = "move"
    THEN [IdleThread EXCEPT !.result = "moved", !.src = r.src, !.dst = r.dst]
    ELSE IF r.call # "undo"
    THEN CallLog(r, "mark_completed", MarkArg(r.id, ""), "return", "moved")
    ELSE CallLog(r, "mark_completed", MarkArg(r.id, ""), "u_ret", "undone")

----------------------------------------------------------------------------
(* Organizer.organize_file, up to the call of append_planned *)

WatchedPaths == {SourcePath}

OrganizeBegin(t, r, p) ==
       LET base == <<baseDir, 0>>
           dir == dest_dir(baseDir, relDest)
           dest == generate_non_overwriting_path(fs, <<dir, 0>>)
       IN IF ~Exists(fs, p)
          THEN /\ SetThread(t, CallLog(r, "append",
                      CompletedRecord(nextId, now, "skip", p, NoPath, "missing"),
                      "return", "missing"))
               /\ dirs' = dirs
          ELSE IF ~validate_destination_path(base)
          THEN /\ SetThread(t, CallLog(r, "append",
                      CompletedRecord(nextId, now, "skip", p, base,
                                      "base_destination_not_allowed"),
                      "return", "blocked"))
               /\ dirs' = dirs
          ELSE /\ SetThread(t, [CallLog(r, "append",
                      PlannedRecord(nextId, now, "move", p, dest, 0, ""),
                      "o_recheck", "none") EXCEPT !.dst = dest, !.id = nextId])
               /\ dirs' = dirs \cup {dir}

OrganizeFile(t, p) ==
    /\ th[t].pc = "idle"
    /\ calls < MaxCalls
    /\ calls' = calls + 1
    /\ nextId' = nextId + 1
    /\ OrganizeBegin(t, [IdleThread EXCEPT !.call = "organize", !.src = p], p)
    /\ UNCHANGED <<fs, log, lockHolder, now, cfgVars, extVars, docVars, watchVars, envSteps>>

(* with self._lock: entries = self._read_entries_unlocked() *)
LogLock(t) ==
    /\ th[t].pc = "lock"
    /\ LockFree(t)
    /\ lockHolder' = t
    /\ SetThread(t, [th[t] EXCEPT !.pc = "write", !.snap = log])
    /\ UNCHANGED <<fs, dirs, log, now, nextId, cfgVars, extVars, docVars, watchVars, calls, envSteps>>

(* Where the caller of a log operation goes on after it *)
AfterLog(r) ==
    CASE r.next = "return" ->
            [IdleThread EXCEPT !.result = r.res]
      [] r.next = "o_recheck" -> [r EXCEPT !.pc = "o_recheck", !.snap = <<>>]
      [] r.next = "u_mark_failed" ->
            CallLog(r, "mark_failed", MarkArg(r.id, r.arg.note), "u_ret", "undo_failed")
      [] r.next = "u_move" -> [r EXCEPT !.pc = "mv_check"]
      [] r.next = "h_organize" -> [r EXCEPT !.pc = "h_organize", !.snap = <<>>]
      [] OTHER -> [r EXCEPT !.pc = "u_ret"]

(* the modification of the entry list, self._write_entries_unlocked(entries),
   and the end of the with block *)
LogWrite(t) ==
    /\ th[t].pc = "write"
    /\ log' = ApplyOp(th[t].snap, th[t].op, th[t].arg)
    /\ lockHolder' = NoThread
    /\ SetThread(t, AfterLog(th[t]))
    /\ UNCHANGED <<fs, dirs, now, nextId, cfgVars, extVars, docVars, watchVars, calls, envSteps>>

(* organize_file after append_planned: the checks before the move *)
OrganizeRecheck(t) ==
    /\ th[t].pc = "o_recheck"
    /\ SetThread(t,
         IF ~Exists(fs, th[t].src)
         THEN CallLog(th[t], "mark_failed", MarkArg(th[t].id, "source_disappeared"),
                      "return", "source_disappeared")
         ELSE IF ~validate_destination_path(th[t].dst)
         THEN CallLog(th[t], "mark_failed", MarkArg(th[t].id, "validation_failed"),
                      "return", "blocked")
         ELSE [th[t] EXCEPT !.pc = "mv_check"])
    /\ UNCHANGED <<fs, dirs, log, lockHolder, now, nextId, cfgVars, extVars, docVars, watchVars, calls, envSteps>>

----------------------------------------------------------------------------
(* _safe_move_file(src, dest) *)

(* if dest.exists(): raise FileExistsError; ensure_directory(dest.parent) *)
MoveCheck(t) ==
    /\ th[t].pc = "mv_check"
    /\ IF Exists(fs, th[t].dst)
       THEN /\ SetThread(t, MoveRaise(th[t], "FileExistsError"))
            /\ dirs' = dirs
       ELSE /\ SetThread(t, [th[t] EXCEPT !.pc = "mv_link"])
            /\ dirs' = dirs \cup {th[t].dst[1]}
    /\ UNCHANGED <<fs, log, lockHolder, now, nextId, cfgVars, extVars, docVars, watchVars, calls, envSteps>>

(* the link takes the place of whatever is at dest, as a rename would *)
CanLinkOverwriting(f, s, d) == Exists(f, s)

(* os.link succeeds only when the source exists and nothing is at dest *)
CanLink(f, s, d) == Exists(f, s) /\ ~Exists(f, d)

(* os.link(src, dest); any failure falls through to the copy *)
MoveLink(t) ==
    /\ th[t].pc = "mv_link"
    /\ \E supported \in BOOLEAN :
         IF supported /\ CanLink(fs, th[t].src, th[t].dst)
         THEN /\ fs' = [fs EXCEPT ![th[t].dst] = fs[th[t].src]]
              /\ SetThread(t, [th[t] EXCEPT !.pc = "mv_unlink"])
         ELSE /\ fs' = fs
              /\ SetThread(t, [th[t] EXCEPT !.pc = "mv_copy"])
    /\ UNCHANGED <<dirs, log, lockHolder, now, nextId, cfgVars, extVars, docVars, watchVars, calls, envSteps>>

(* os.unlink(src) after the link; on failure os.unlink(dest) and on to the copy *)
MoveUnlink(t) ==
    /\ th[t].pc = "mv_unlink"
    /\ IF Exists(fs, th[t].src)
       THEN /\ fs' = [fs EXCEPT ![th[t].src] = NoFile]
            /\ SetThread(t, MoveReturn(th[t]))
       ELSE /\ fs' = [fs EXCEPT ![th[t].dst] = NoFile]
            /\ SetThread(t, [th[t] EXCEPT !.pc = "mv_copy"])
    /\ UNCHANGED <<dirs, log, lockHolder, now, nextId, cfgVars, extVars, docVars, watchVars, calls, envSteps>>

(* open(dest, "wb"): creates or truncates *)
CanCreateTruncating(f, d) == TRUE

(* open(dest, "xb") creates dest only when nothing is there *)
CanCreate(f, d) == ~Exists(f, d)

(* open(src, "rb"); open(dest, "xb") *)
MoveCopyOpen(t) ==
    /\ th[t].pc = "mv_copy"
    /\ IF ~Exists(fs, th[t].src)
       THEN /\ fs' = fs
            /\ SetThread(t, MoveRaise(th[t], "FileNotFoundError"))
       ELSE IF ~CanCreate(fs, th[t].dst)
       THEN /\ fs' = fs
            /\ SetThread(t, MoveRaise(th[t], "FileExistsError"))
       ELSE /\ fs' = [fs EXCEPT ![th[t].dst] = PartialFile(fs[th[t].src].data)]
            /\ SetThread(t, [th[t] EXCEPT !.pc = "mv_data", !.data = fs[th[t].src].data])
    /\ UNCHANGED <<dirs, log, lockHolder, now, nextId, cfgVars, extVars, docVars, watchVars, calls, envSteps>>

(* wf.flush(); os.fsync(wf.fileno()) has failed and the except clause has
   passed over it: the content is complete and may not be on the disk *)
Copied(c, sync_ok) == IF sync_ok THEN File(c) ELSE UnsyncedFile(c)

(* shutil.copyfileobj, flush, fsync, copystat: an I/O error of the copy leaves
   the partial destination behind and propagates; an error of flush or fsync
   is passed over *)
MoveCopyData(t) ==
    /\ th[t].pc = "mv_data"
    /\ \E io_ok, sync_ok \in BOOLEAN :
         IF io_ok
         THEN /\ fs' = IF fs[th[t].dst] = PartialFile(th[t].data)
                       THEN [fs EXCEPT ![th[t].dst] = Copied(th[t].data, sync_ok)]
                       ELSE fs
              /\ SetThread(t, [th[t] EXCEPT !.pc = "mv_rm"])
         ELSE /\ fs' = fs
              /\ SetThread(t, MoveRaise(th[t], "OSError"))
    /\ UNCHANGED <<dirs, log, lockHolder, now, nextId, cfgVars, extVars, docVars, watchVars, calls, envSteps>>

(* os.unlink(src) after the copy *)
MoveCopyUnlink(t) ==
    /\ th[t].pc = "mv_rm"
    /\ IF Exists(fs, th[t].src)
       THEN /\ fs' = [fs EXCEPT ![th[t].src] = NoFile]
            /\ SetThread(t, MoveReturn(th[t]))
       ELSE /\ fs' = fs
            /\ SetThread(t, MoveRaise(th[t], "FileNotFoundError"))
    /\ UNCHANGED <<dirs, log, lockHolder, now, nextId, cfgVars, extVars, docVars, watchVars, calls, envSteps>>

----------------------------------------------------------------------------
(* Organizer.undo -> ActivityLog.undo_last_24h *)

(* cutoff = _utc_now() - timedelta(hours=24) *)
Undo(t) ==
    /\ th[t].pc = "idle"
    /\ calls < MaxCalls
    /\ calls' = calls + 1
    /\ SetThread(t, [IdleThread EXCEPT !.call = "undo", !.pc = "u_lock",
                                       !.cutoff = now - UndoWindowHours])
    /\ UNCHANGED <<fs, dirs, log, lockHolder, now, nextId, cfgVars, extVars, docVars, watchVars, envSteps>>

(* with self._lock: read the entries and scan them newest-first *)
UndoScan(t) ==
    /\ th[t].pc = "u_lock"
    /\ LockFree(t)
    /\ lockHolder' = t
    /\ LET i == SelectUndoTarget(log, th[t].cutoff)
       IN SetThread(t, [th[t] EXCEPT !.snap = log, !.entries = log, !.target = i,
                                     !.pc = IF i = 0 THEN "u_ret" ELSE "u_found",
                                     !.res = IF i = 0 THEN "nothing" ELSE "none"])
    /\ UNCHANGED <<fs, dirs, log, now, nextId, cfgVars, extVars, docVars, watchVars, calls, envSteps>>

(* the checks on the selected entry, the restore path, and the call of
   self.append_planned, made while the lock is held *)
UndoPlan(t) ==
    /\ th[t].pc = "u_found"
    /\ nextId' = nextId + 1
    /\ LET e == th[t].snap[th[t].target]
           src == e.source
           dest == e.destination
           restore == IF Exists(fs, src) THEN generate_non_overwriting_path(fs, src) ELSE src
           r == [th[t] EXCEPT !.id = nextId, !.src = dest]
       IN SetThread(t,
            IF ~Exists(fs, dest)
            THEN [CallLog(r, "append",
                     PlannedRecord(nextId, now, "undo", dest, src, e.id, "destination_missing"),
                     "u_mark_failed", "undo_failed") EXCEPT !.dst = src]
            ELSE IF ~validate_destination_path(src) \/ ~validate_destination_path(dest)
            THEN [CallLog(r, "append",
                     PlannedRecord(nextId, now, "undo", dest, src, e.id, "path_validation_failed"),
                     "u_mark_failed", "undo_failed") EXCEPT !.dst = src]
            ELSE [CallLog(r, "append",
                     PlannedRecord(nextId, now, "undo", dest, restore, e.id, ""),
                     "u_move", "none") EXCEPT !.dst = restore])
    /\ UNCHANGED <<fs, dirs, log, lockHolder, now, cfgVars, extVars, docVars, watchVars, calls, envSteps>>

(* the returns of undo_last_24h, which end its with block; after a completed
   reverse move: target["undone"] = True and the write of the entries read at
   the start of the call *)
UndoReturn(t) ==
    /\ th[t].pc = "u_ret"
    /\ lockHolder' = NoThread
    /\ log' = IF th[t].res = "undone"
              THEN [th[t].entries EXCEPT ![th[t].target].undone = TRUE,
                                      ![th[t].target].undo_action_id = th[t].id]
              ELSE log
    /\ SetThread(t, [IdleThread EXCEPT !.result = th[t].res])
    /\ UNCHANGED <<fs, dirs, now, nextId, cfgVars, extVars, docVars, watchVars, calls, envSteps>>

----------------------------------------------------------------------------
(* The environment: other programs create and delete files; time passes *)

EnvPaths == {SourcePath, <<HomeDest, 0>>}

EnvCreate(p) ==
    /\ envSteps < MaxEnv
    /\ ~Exists(fs, p)
    /\ fs' = [fs EXCEPT ![p] = File(envSteps + 2)]
    /\ envSteps' = envSteps + 1
    /\ UNCHANGED <<dirs, log, lockHolder, th, now, nextId, cfgVars, extVars, docVars, watchVars, calls>>

EnvDelete(p) ==
    /\ envSteps < MaxEnv
    /\ Exists(fs, p)
    /\ fs' = [fs EXCEPT ![p] = NoFile]
    /\ envSteps' = envSteps + 1
    /\ UNCHANGED <<dirs, log, lockHolder, th, now, nextId, cfgVars, extVars, docVars, watchVars, calls>>

Tick ==
    /\ now < MaxTicks * TickHours
    /\ now' = now + TickHours
    /\ UNCHANGED <<fs, dirs, log, lockHolder, th, nextId, cfgVars, extVars, docVars, watchVars, calls, envSteps>>

ThreadStep(t) ==
    \/ \E p \in WatchedPaths : OrganizeFile(t, p)
    \/ LogLock(t)
    \/ LogWrite(t)
    \/ OrganizeRecheck(t)
    \/ MoveCheck(t)
    \/ MoveLink(t)
    \/ MoveUnlink(t)
    \/ MoveCopyOpen(t)
    \/ MoveCopyData(t)
    \/ MoveCopyUnlink(t)
    \/ Undo(t)
    \/ UndoScan(t)
    \/ UndoPlan(t)
    \/ UndoReturn(t)

Next ==
    \/ \E t \in Threads : ThreadStep(t)
    \/ \E p \in EnvPaths : EnvCreate(p)
    \/ \E p \in Paths : EnvDelete(p)
    \/ Tick

Spec == Init /\ [][Next]_vars

(* Every thread that can take a step eventually takes one *)
FairSpec == Spec /\ \A t \in Threads : WF_vars(ThreadStep(t))


----------------------------------------------------------------------------
(* The process is killed: every thread stops where it is; the files stay as
   they are *)

Kill ==
    /\ \E t \in Threads : th[t].pc # "killed"
    /\ th' = [t \in Threads |-> [th[t] EXCEPT !.pc = "killed", !.was = th[t].pc]]
    /\ UNCHANGED <<fs, dirs, log, lockHolder, now, nextId, calls, envSteps,
                   cfgVars, extVars, docVars, watchVars>>

CrashNext ==
    \/ \E t \in Threads : ThreadStep(t)
    \/ \E p \in EnvPaths : EnvCreate(p)
    \/ \E p \in Paths : EnvDelete(p)
    \/ Tick
    \/ Kill

(* organize_file and undo, with a kill of the process at any moment *)
CrashSpec == Init /\ [][CrashNext]_vars

----------------------------------------------------------------------------
(* ActivityLog._write_entries_unlocked taken apart: the write of the temporary
   file, which is not atomic, and the replacement of the log document, with
   I/O errors and a kill of the process at any moment.  Spec takes the whole
   rewrite as the one step LogWrite. *)

log_path == "log"

(* the temporary path is the path of the log document itself *)
tmp_path_same == "log"

(* self.log_path.with_suffix(self.log_path.suffix + ".tmp") *)
tmp_path == "tmp"

(* A document that is not whole does not parse: _read_entries_unlocked gives [] *)
Readable(entries, whole) == IF whole THEN entries ELSE <<>>

(* the file at path holds the document, whole or cut short *)
PutDoc(path, entries, whole) ==
    IF path = log_path
    THEN /\ log' = Readable(entries, whole)
         /\ logWhole' = whole
         /\ tmp' = tmp
    ELSE /\ tmp' = Doc(entries, whole)
         /\ UNCHANGED <<log, logWhole>>

(* tmp_path.unlink(missing_ok=True) *)
UnlinkDoc(path) ==
    IF path = log_path
    THEN /\ log' = <<>>
         /\ logWhole' = TRUE
         /\ tmp' = tmp
    ELSE /\ tmp' = NoDoc
         /\ UNCHANGED <<log, logWhole>>

(* the payload: json.dumps of the modified entry list *)
Payload(r) == ApplyOp(r.snap, r.op, r.arg)

(* append_planned *)
LogAppend(t) ==
    /\ th[t].pc = "idle"
    /\ calls < MaxCalls
    /\ calls' = calls + 1
    /\ nextId' = nextId + 1
    /\ SetThread(t, CallLog([IdleThread EXCEPT !.call = "log"], "append",
                 PlannedRecord(nextId, now, "move", SourcePath, <<HomeDest, 0>>, 0, ""),
                 "return", "logged"))
    /\ UNCHANGED <<fs, dirs, log, lockHolder, now, envSteps, cfgVars, extVars, docVars, watchVars>>

(* mark_completed *)
LogMark(t) ==
    /\ th[t].pc = "idle"
    /\ calls < MaxCalls
    /\ calls' = calls + 1
    /\ \E id \in 1..(nextId - 1) :
         SetThread(t, CallLog([IdleThread EXCEPT !.call = "log"], "mark_completed",
                     MarkArg(id, ""), "return", "logged"))
    /\ UNCHANGED <<fs, dirs, log, lockHolder, now, nextId, envSteps,
                   cfgVars, extVars, docVars, watchVars>>

(* tmp_path.write_text(payload) opens the file, which empties it, and writes *)
WriteText(t) ==
    /\ th[t].pc = "write"
    /\ PutDoc(tmp_path, Payload(th[t]), FALSE)
    /\ SetThread(t, [th[t] EXCEPT !.pc = "w_text"])
    /\ UNCHANGED <<fs, dirs, lockHolder, now, nextId, calls, envSteps, cfgVars, extVars, watchVars>>

(* the end of write_text; on an error the except clause removes the temporary
   file and the with block of the caller ends *)
WriteTextEnd(t) ==
    /\ th[t].pc = "w_text"
    /\ \E io_ok \in BOOLEAN :
         IF io_ok
         THEN /\ PutDoc(tmp_path, Payload(th[t]), TRUE)
              /\ SetThread(t, [th[t] EXCEPT !.pc = "w_replace"])
              /\ lockHolder' = lockHolder
         ELSE /\ UnlinkDoc(tmp_path)
              /\ SetThread(t, AfterLog(th[t]))
              /\ lockHolder' = NoThread
    /\ UNCHANGED <<fs, dirs, now, nextId, calls, envSteps, cfgVars, extVars, watchVars>>

(* tmp_path.replace(self.log_path): the rename is atomic *)
ReplaceDoc(path) ==
    IF path = log_path
    THEN UNCHANGED <<log, logWhole, tmp>>
    ELSE /\ log' = Readable(tmp.entries, tmp.whole)
         /\ logWhole' = tmp.whole
         /\ tmp' = NoDoc

ReplaceLog(t) ==
    /\ th[t].pc = "w_replace"
    /\ \E io_ok \in BOOLEAN :
         IF io_ok THEN ReplaceDoc(tmp_path) ELSE UnlinkDoc(tmp_path)
    /\ SetThread(t, AfterLog(th[t]))
    /\ lockHolder' = NoThread
    /\ UNCHANGED <<fs, dirs, now, nextId, calls, envSteps, cfgVars, extVars, watchVars>>

LogFileNext ==
    \/ \E t \in Threads : LogAppend(t)
    \/ \E t \in Threads : LogMark(t)
    \/ \E t \in Threads : LogLock(t)
    \/ \E t \in Threads : WriteText(t)
    \/ \E t \in Threads : WriteTextEnd(t)
    \/ \E t \in Threads : ReplaceLog(t)
    \/ Kill

LogFileSpec == Init /\ [][LogFileNext]_vars

----------------------------------------------------------------------------
(* Two calls of _safe_move_file at the same time, with different sources and
   the same destination *)

MoverDests == {<<HomeDest, 0>>, <<HomeDest, 1>>}

MoverSource(t) == IF t = "t1" THEN <<DownloadsDir, 0>> ELSE <<DownloadsDir, 1>>

MoverInit ==
    /\ fs = [p \in Paths |->
                IF p = MoverSource("t1") THEN File(1)
                ELSE IF p = MoverSource("t2") THEN File(2) ELSE NoFile]
    /\ dirs = {DownloadsDir}
    /\ log = <<>>
    /\ lockHolder = NoThread
    /\ th = [t \in Threads |-> IdleThread]
    /\ now = 0
    /\ nextId = 1
    /\ baseDir = HomeDest
    /\ relDest = "Misc"
    /\ calls = 0
    /\ envSteps = 0
    /\ LogFileInit
    /\ WatcherIdle
    /\ PollIdle
    /\ RulesLoaded

(* _safe_move_file(src, dest) is called *)
MoveStart(t, dest) ==
    /\ th[t].pc = "idle"
    /\ th[t].result = "none"
    /\ SetThread(t, [IdleThread EXCEPT !.call = "move", !.pc = "mv_check",
                                       !.src = MoverSource(t), !.dst = dest])
    /\ UNCHANGED <<fs, dirs, log, lockHolder, now, nextId, calls, envSteps,
                   cfgVars, extVars, docVars, watchVars>>

MoverNext ==
    \/ \E t \in Threads : \E dest \in MoverDests : MoveStart(t, dest)
    \/ \E t \in Threads : MoveCheck(t)
    \/ \E t \in Threads : MoveLink(t)
    \/ \E t \in Threads : MoveUnlink(t)
    \/ \E t \in Threads : MoveCopyOpen(t)
    \/ \E t \in Threads : MoveCopyData(t)
    \/ \E t \in Threads : MoveCopyUnlink(t)

MoverSpec == MoverInit /\ [][MoverNext]_vars

----------------------------------------------------------------------------
(* FileWatcher: the observer thread puts notifications into the queue; the
   worker thread takes them out, waits for the file to be stable and calls
   on_stable_file, which is Organizer.handle_stable_file (main.py) *)

Worker == "t1"

(* _enqueue_event: a notification for a path that is no temporary file *)
Notify(p) ==
    /\ notified < MaxNotify
    /\ notified' = notified + 1
    /\ lastSeen' = [lastSeen EXCEPT ![p] = wclock]
    /\ wqueue' = IF wclock - lastSeen[p] < DebounceSeconds
                 THEN wqueue
                 ELSE Append(wqueue, p)
    /\ UNCHANGED <<fs, dirs, log, lockHolder, th, now, nextId, calls, envSteps,
                   cfgVars, extVars, docVars, wclock, cbCount>>

(* a second passes *)
ClockTick ==
    /\ wclock < MaxClock
    /\ wclock' = wclock + 1
    /\ UNCHANGED <<fs, dirs, log, lockHolder, th, now, nextId, calls, envSteps,
                   cfgVars, extVars, docVars, wqueue, lastSeen, notified, cbCount>>

(* _worker_loop: src_path, evt = self._queue.get(timeout=0.5) *)
WorkerGet(t) ==
    /\ t = Worker
    /\ th[t].pc = "idle"
    /\ wqueue # <<>>
    /\ wqueue' = Tail(wqueue)
    /\ SetThread(t, [IdleThread EXCEPT !.call = "watch", !.pc = "w_wait",
                                       !.src = Head(wqueue)])
    /\ UNCHANGED <<fs, dirs, log, lockHolder, now, nextId, calls, envSteps,
                   cfgVars, extVars, docVars, lastSeen, wclock, notified, cbCount>>

(* _wait_until_stable: True when the file is there and its size has stopped
   changing; False when max_wait_seconds have passed without that *)
WaitUntilStable(t) ==
    /\ th[t].pc = "w_wait"
    /\ \E stable \in BOOLEAN :
         SetThread(t, IF Exists(fs, th[t].src) /\ stable
                      THEN [th[t] EXCEPT !.pc = "w_call", !.data = fs[th[t].src].data]
                      ELSE [IdleThread EXCEPT !.result = "unstable"])
    /\ UNCHANGED <<fs, dirs, log, lockHolder, now, nextId, calls, envSteps,
                   cfgVars, extVars, docVars, watchVars>>

(* the event entry of handle_stable_file *)
EventRecord(id, ts, p) == CompletedRecord(id, ts, "event", p, NoPath, "")

(* log_error("organize_file", ...) *)
ErrorRecord(id, ts, p) == CompletedRecord(id, ts, "error", p, NoPath, "organize_file")

(* self.on_stable_file(src_path, evt): handle_stable_file appends the event entry *)
HandleStableFile(t) ==
    /\ th[t].pc = "w_call"
    /\ cbCount' = [cbCount EXCEPT ![th[t].data] = @ + 1]
    /\ nextId' = nextId + 1
    /\ SetThread(t, CallLog([IdleThread EXCEPT !.call = "handle", !.src = th[t].src,
                                               !.event = nextId],
                            "append", EventRecord(nextId, now, th[t].src),
                            "h_organize", "none"))
    /\ UNCHANGED <<fs, dirs, log, lockHolder, now, calls, envSteps,
                   cfgVars, extVars, docVars, wqueue, lastSeen, wclock, notified>>

(* the exception leaves handle_stable_file *)
HandleReraise(r, id, ts) == [IdleThread EXCEPT !.result = "raised"]

(* except Exception as ex: self.log.log_error("organize_file", ...) *)
HandleCatch(r, id, ts) ==
    CallLog(r, "append", ErrorRecord(id, ts, r.src), "return", "error_logged")

(* try: self.organize_file(file_path).  organize_file raises when the rules
   document is not a JSON object: self.rules.get in get_base_destination
   (rule_engine.py) is called outside any try of organize_file, for a file
   that exists *)
HandleOrganize(t) ==
    /\ th[t].pc = "h_organize"
    /\ nextId' = nextId + 1
    /\ \E rules_ok \in BOOLEAN :
         IF ~rules_ok /\ Exists(fs, th[t].src)
         THEN /\ SetThread(t, HandleCatch(th[t], nextId, now))
              /\ dirs' = dirs
         ELSE OrganizeBegin(t, th[t], th[t].src)
    /\ UNCHANGED <<fs, log, lockHolder, now, calls, envSteps, cfgVars, extVars, docVars, watchVars>>

WorkerStep(t) ==
    \/ WorkerGet(t)
    \/ WaitUntilStable(t)
    \/ HandleStableFile(t)
    \/ HandleOrganize(t)
    \/ LogLock(t)
    \/ LogWrite(t)
    \/ OrganizeRecheck(t)
    \/ MoveCheck(t)
    \/ MoveLink(t)
    \/ MoveUnlink(t)
    \/ MoveCopyOpen(t)
    \/ MoveCopyData(t)
    \/ MoveCopyUnlink(t)

WatcherNext ==
    \/ \E p \in WatchedPaths : Notify(p)
    \/ ClockTick
    \/ WorkerStep(Worker)
    \/ \E p \in EnvPaths : EnvCreate(p)
    \/ \E p \in Paths : EnvDelete(p)

WatcherSpec == Init /\ [][WatcherNext]_vars

----------------------------------------------------------------------------
(* ServeSpec: the process that main.py starts.  The worker thread of the
   watcher calls handle_stable_file, and a thread of the API server calls
   undo_last_24h, on the one Organizer and its one ActivityLog. *)

Api == "t2"

(* POST /undo: organizer.undo_last_24h() *)
ApiUndo(t) ==
    /\ t = Api
    /\ Undo(t)

ServeStep(t) ==
    \/ WorkerStep(t)
    \/ ApiUndo(t)
    \/ UndoScan(t)
    \/ UndoPlan(t)
    \/ UndoReturn(t)

ServeNext ==
    \/ \E t \in Threads : ServeStep(t)
    \/ \E p \in WatchedPaths : Notify(p)
    \/ ClockTick
    \/ \E p \in EnvPaths : EnvCreate(p)
    \/ \E p \in Paths : EnvDelete(p)

ServeSpec == Init /\ [][ServeNext]_vars

(* Every thread that can take a step eventually takes one *)
FairServeSpec == ServeSpec /\ \A t \in Threads : WF_vars(ServeStep(t))

----------------------------------------------------------------------------
(* PollSpec: FileWatcher step by step.  The observer delivers notifications
   until stop() has stopped it; the watched file appears and grows. *)

PollRest == <<fs, dirs, log, lockHolder, th, now, nextId, calls, envSteps,
              cfgVars, docVars, ruleVars>>

(* _enqueue_event: the checks of the name, the debounce, the put on the queue.
   late: stop() had been called when the notification came *)
EnqueueEvent(n) ==
    /\ stopPc # "returned"
    /\ notified < MaxNotify
    /\ notified' = notified + 1
    /\ IF n = NoName
       THEN UNCHANGED <<wqueue, lastSeen>>
       ELSE IF is_temporary_file(n)
       THEN UNCHANGED <<wqueue, lastSeen>>
       ELSE /\ lastSeen' = [lastSeen EXCEPT ![n] = wclock]
            /\ wqueue' = IF wclock - lastSeen[n] < DebounceSeconds
                         THEN wqueue
                         ELSE Append(wqueue, [path |-> n,
                                              evt |-> FileEvent("created", n, NoName, wclock),
                                              late |-> stopEvent])
    /\ UNCHANGED <<PollRest, wclock, cbCount, pollVars>>

(* the watched file is created *)
FileAppears ==
    /\ fsize = NoSize
    /\ fsize' = 0
    /\ quiet' = 0
    /\ UNCHANGED <<PollRest, watchVars, stopEvent, stopPc, wk>>

(* the watched file is written to: it grows *)
FileGrows ==
    /\ fsize # NoSize
    /\ fsize < MaxSize
    /\ fsize' = fsize + 1
    /\ quiet' = 0
    /\ UNCHANGED <<PollRest, watchVars, stopEvent, stopPc, wk>>

(* _worker_loop: while not self._stop_event.is_set() *)
WorkerLoop ==
    /\ wk.pc = "loop"
    /\ wk' = [wk EXCEPT !.pc = IF stopEvent THEN "exited" ELSE "get"]
    /\ UNCHANGED <<PollRest, watchVars, stopEvent, stopPc, fsize, quiet>>

(* src_path, evt = self._queue.get(timeout=0.5); _wait_until_stable begins *)
WorkerTake ==
    /\ wk.pc = "get"
    /\ wqueue # <<>>
    /\ wqueue' = Tail(wqueue)
    /\ wk' = [IdleWorker EXCEPT !.pc = "poll", !.path = Head(wqueue).path,
                                !.evt = Head(wqueue).evt,
                                !.late = Head(wqueue).late]
    /\ UNCHANGED <<PollRest, lastSeen, wclock, notified, cbCount,
                   stopEvent, stopPc, fsize, quiet>>

(* except queue.Empty: continue *)
WorkerEmpty ==
    /\ wk.pc = "get"
    /\ wqueue = <<>>
    /\ wk' = [wk EXCEPT !.pc = "loop"]
    /\ UNCHANGED <<PollRest, watchVars, stopEvent, stopPc, fsize, quiet>>

(* the file is taken for stable when the wait is over *)
GiveUpAsStable(w) == [w EXCEPT !.pc = "call"]

(* return False; the worker goes on with its loop *)
GiveUp(w) == IdleWorker

(* time.sleep: a poll has passed *)
Sleep(w) == [w EXCEPT !.elapsed = @ + 1]

(* the size is taken for settled at the first poll that finds it unchanged *)
IsStableAtOnce(elapsed, since) == TRUE

(* now - stable_since >= self.stability_seconds *)
IsStable(elapsed, since) == elapsed - since >= StabilityTicks

(* _wait_until_stable: the test of the while and one turn of its body *)
PollOnce ==
    /\ wk.pc = "poll"
    /\ IF wk.elapsed >= MaxWaitTicks \/ stopEvent
       THEN /\ wk' = GiveUp(wk)
            /\ quiet' = quiet
       ELSE IF fsize = NoSize
       THEN /\ wk' = Sleep(wk)
            /\ quiet' = quiet
       ELSE IF wk.last_size = NoSize \/ fsize # wk.last_size
       THEN /\ wk' = Sleep([wk EXCEPT !.last_size = fsize, !.stable_since = NoTime])
            /\ quiet' = Min2(quiet + 1, StabilityTicks)
       ELSE LET since == IF wk.stable_since = NoTime THEN wk.elapsed
                         ELSE wk.stable_since
            IN IF IsStable(wk.elapsed, since)
               THEN /\ wk' = [wk EXCEPT !.pc = "call", !.stable_since = since]
                    /\ quiet' = quiet
               ELSE /\ wk' = Sleep([wk EXCEPT !.stable_since = since])
                    /\ quiet' = Min2(quiet + 1, StabilityTicks)
    /\ UNCHANGED <<PollRest, watchVars, stopEvent, stopPc, fsize>>

(* if stable: self.on_stable_file(src_path, evt); what it raises is passed
   over; self._queue.task_done() *)
Callback ==
    /\ wk.pc = "call"
    /\ cbCount' = [cbCount EXCEPT ![wk.path] = @ + 1]
    /\ wk' = IdleWorker
    /\ UNCHANGED <<PollRest, wqueue, lastSeen, wclock, notified,
                   stopEvent, stopPc, fsize, quiet>>

(* stop(): self._stop_event.set() *)
StopSet ==
    /\ stopPc = "idle"
    /\ stopEvent' = TRUE
    /\ stopPc' = "set"
    /\ UNCHANGED <<PollRest, watchVars, wk, fsize, quiet>>

(* stop(): self._observer.stop(); self._observer.join(timeout=5); stop returns *)
StopObserver ==
    /\ stopPc = "set"
    /\ stopPc' = "returned"
    /\ UNCHANGED <<PollRest, watchVars, stopEvent, wk, fsize, quiet>>

WorkerLoopStep ==
    \/ WorkerLoop
    \/ WorkerTake
    \/ WorkerEmpty
    \/ PollOnce
    \/ Callback

PollInit ==
    /\ fs = [p \in Paths |-> IF p = SourcePath THEN File(1) ELSE NoFile]
    /\ dirs = {DownloadsDir}
    /\ log = <<>>
    /\ lockHolder = NoThread
    /\ th = [t \in Threads |-> IdleThread]
    /\ now = 0
    /\ nextId = 1
    /\ baseDir = HomeDest
    /\ relDest = "Misc"
    /\ calls = 0
    /\ envSteps = 0
    /\ LogFileInit
    /\ wqueue = <<>>
    /\ lastSeen = [n \in PollNames |-> 0]
    /\ wclock = 1
    /\ notified = 0
    /\ cbCount = [n \in PollNames |-> 0]
    /\ PollIdle
    /\ RulesLoaded

PollNext ==
    \/ \E n \in PollNames : EnqueueEvent(n)
    \/ ClockTick
    \/ FileAppears
    \/ FileGrows
    \/ WorkerLoopStep
    \/ StopSet
    \/ StopObserver

PollSpec == PollInit /\ [][PollNext]_vars

FairPollSpec == PollSpec /\ WF_vars(WorkerLoopStep)

----------------------------------------------------------------------------
(* NotifySpec: the handlers of the observer (on_created, on_modified,
   on_moved) and _enqueue_event with a clock of TicksPerSecond ticks to the
   second, beside the worker.  The watched file is there and is not written
   to. *)

TicksPerSecond == 2
MaxTime == 4

(* self.debounce_seconds, in ticks *)
DebounceTicks == DebounceSeconds * TicksPerSecond

(* The thread of the observer, which runs the handlers *)
Observer == "t2"

TempName == <<"a", ".crdownload">>

(* The name a file is renamed to; no notification has it as src_path *)
RenamedName == <<"b", ".pdf">>

NotifyNames == {RegularName, TempName, RenamedName}

(* The moves the observer reports *)
MovedEvents ==
    {[src_path |-> n, dest_path |-> RenamedName] : n \in {RegularName, TempName}}

(* the new name of the move is taken for the path of the notification *)
moved_dest(event) == event.dest_path

(* on_moved: src = Path(str(getattr(event, "src_path", ""))) *)
moved_src(event) == event.src_path

(* the timestamp of a debounced notification is not kept *)
NotRefreshed(seen, n, ts) == seen

(* if ts - last < self.debounce_seconds: self._last_seen[key] = ts *)
Refreshed(seen, n, ts) == [seen EXCEPT ![n] = ts]

(* _enqueue_event(event_type, src_path, dest_path), called by the observer *)
enqueue_event(event_type, n, dest) ==
    /\ notified < MaxNotify
    /\ notified' = notified + 1
    /\ SetThread(Observer, [IdleThread EXCEPT !.call = event_type, !.src = n,
                                              !.dst = dest])
    /\ IF n = NoName \/ is_temporary_file(n)
       THEN UNCHANGED <<wqueue, lastSeen>>
       ELSE IF wclock - lastSeen[n] < DebounceTicks
       THEN /\ lastSeen' = Refreshed(lastSeen, n, wclock)
            /\ wqueue' = wqueue
       ELSE /\ lastSeen' = [lastSeen EXCEPT ![n] = wclock]
            /\ wqueue' = Append(wqueue, [path |-> n,
                                         evt |-> FileEvent(event_type, n, dest, wclock),
                                         late |-> stopEvent])
    /\ UNCHANGED <<fs, dirs, log, lockHolder, now, nextId, calls, envSteps,
                   cfgVars, docVars, ruleVars, wclock, cbCount, pollVars>>

OnCreated(n) == enqueue_event("created", n, NoName)

OnModified(n) == enqueue_event("modified", n, NoName)

OnMoved(event) == enqueue_event("moved", moved_src(event), moved_dest(event))

(* a tick of the clock passes *)
TimeTick ==
    /\ wclock < MaxTime
    /\ wclock' = wclock + 1
    /\ UNCHANGED <<PollRest, wqueue, lastSeen, notified, cbCount, pollVars>>

(* time.time() is more than a debounce window after 0.0, the timestamp of a
   path that was never seen *)
NotifyInit ==
    /\ fs = [p \in Paths |-> IF p = SourcePath THEN File(1) ELSE NoFile]
    /\ dirs = {DownloadsDir}
    /\ log = <<>>
    /\ lockHolder = NoThread
    /\ th = [t \in Threads |-> IdleThread]
    /\ now = 0
    /\ nextId = 1
    /\ baseDir = HomeDest
    /\ relDest = "Misc"
    /\ calls = 0
    /\ envSteps = 0
    /\ LogFileInit
    /\ wqueue = <<>>
    /\ lastSeen = [n \in NotifyNames |-> 0]
    /\ wclock = DebounceTicks
    /\ notified = 0
    /\ cbCount = [n \in NotifyNames |-> 0]
    /\ stopEvent = FALSE
    /\ stopPc = "idle"
    /\ wk = IdleWorker
    /\ fsize = 1
    /\ quiet = 0
    /\ RulesLoaded

NotifyNext ==
    \/ \E n \in {RegularName, TempName} : OnCreated(n)
    \/ \E n \in {RegularName, TempName} : OnModified(n)
    \/ \E event \in MovedEvents : OnMoved(event)
    \/ TimeTick
    \/ WorkerLoopStep

NotifySpec == NotifyInit /\ [][NotifyNext]_vars

----------------------------------------------------------------------------
(* RulesSpec: the rules document is edited, reloaded, and decide is called *)

RulesRest == <<fs, dirs, lockHolder, th, now, calls, envSteps,
               cfgVars, docVars, watchVars, pollVars>>

(* What the rules document is changed into while the program runs *)
EditedDocs == {Unreadable, Unparsable, JsonDoc(NotAnObject)}

(* rules.json is edited, truncated or made unreadable *)
EditRules(doc) ==
    /\ rulesFile # doc
    /\ rulesFile' = doc
    /\ UNCHANGED <<RulesRest, log, nextId, rules, file, decision, reloads>>

(* Organizer.reload_rules: try: self.rule_engine.load()
   except Exception as ex: self.log.log_error("reload_rules", ...) *)
ReloadRules ==
    /\ reloads < MaxReloads
    /\ reloads' = reloads + 1
    /\ IF load_raises(rulesFile)
       THEN /\ log' = AppendRecord(log, CompletedRecord(nextId, now, "error", NoPath,
                                                        NoPath, "reload_rules"))
            /\ nextId' = nextId + 1
            /\ rules' = rules
       ELSE /\ rules' = load(rulesFile)
            /\ UNCHANGED <<log, nextId>>
    /\ UNCHANGED <<RulesRest, rulesFile, file, decision>>

(* RuleEngine.decide(file_path) *)
Decide(f) ==
    /\ file' = f
    /\ decision' = decide(rules, f)
    /\ UNCHANGED <<RulesRest, log, nextId, rulesFile, rules, reloads>>

(* A rules document with one category, as scripts/deep_debug.py writes it *)
ShippedRules ==
    RuleObject(TRUE, JsonList(<<[dict |-> TRUE, destination |-> "Docs",
                                 keywords |-> JsonList(<<"invoice">>),
                                 extensions |-> JsonList(Extensions)]>>), "Other")

(* Organizer.__init__ has loaded the rules document, which is doc *)
RulesStart(doc) ==
    /\ fs = [p \in Paths |-> IF p = SourcePath THEN File(1) ELSE NoFile]
    /\ dirs = {DownloadsDir}
    /\ log = <<>>
    /\ lockHolder = NoThread
    /\ th = [t \in Threads |-> IdleThread]
    /\ now = 0
    /\ nextId = 1
    /\ baseDir = HomeDest
    /\ relDest = "Misc"
    /\ calls = 0
    /\ envSteps = 0
    /\ LogFileInit
    /\ WatcherIdle
    /\ PollIdle
    /\ rulesFile = doc
    /\ rules = load(doc)
    /\ file = [ext |-> "", contains |-> {}, edu_token |-> FALSE]
    /\ decision = NoDecision
    /\ reloads = 0

RulesInit ==
    \E doc \in EditedDocs \cup {JsonDoc(DefaultRules), JsonDoc(ShippedRules)} :
        RulesStart(doc)

RulesNext ==
    \/ \E doc \in EditedDocs \cup {JsonDoc(ShippedRules)} : EditRules(doc)
    \/ ReloadRules
    \/ \E f \in Files : Decide(f)

RulesSpec == RulesInit /\ [][RulesNext]_vars

(* DecideSpec: decide applied to every file under every rules document of
   the bounds *)
DecideInit ==
    \E doc \in {Unreadable, Unparsable} \cup {JsonDoc(v) : v \in RuleValues} :
        RulesStart(doc)

DecideNext == \E f \in Files : Decide(f)

DecideSpec == DecideInit /\ [][DecideNext]_vars

----------------------------------------------------------------------------
(* ActivityLog.compute_insights *)

(* every move entry is counted, whatever its status *)
IsAnyMove(e) == e.action = "move"

(* not (action_type != "move" or status != "completed") *)
IsCompletedMove(e) == e.action = "move" /\ e.status = "completed"

(* for e in entries: the counters moved_total, skipped_total, errors_total *)
RECURSIVE Tally(_, _, _)
Tally(entries, i, acc) ==
    IF i > Len(entries) THEN acc
    ELSE LET e == entries[i]
         IN IF e.action = "error"
            THEN Tally(entries, i + 1, [acc EXCEPT !.errors_total = @ + 1])
            ELSE IF e.action = "skip"
            THEN Tally(entries, i + 1, [acc EXCEPT !.skipped_total = @ + 1])
            ELSE IF ~IsCompletedMove(e)
            THEN Tally(entries, i + 1, acc)
            ELSE Tally(entries, i + 1, [acc EXCEPT !.moved_total = @ + 1])

(* round(n / d, 0) of Python: to the nearest integer, a half to the even one *)
RoundDiv(n, d) ==
    LET q == n \div d
        r == n % d
    IN IF 2 * r > d \/ (2 * r = d /\ q % 2 = 1) THEN q + 1 ELSE q

(* compute_insights: the total of files_organized, and
   downloads_clutter_reduction_percent = round((moved_total / total_events) *
   100.0, 2), counted in hundredths of a percent *)
compute_insights(entries) ==
    LET t == Tally(entries, 1, [moved_total |-> 0, skipped_total |-> 0,
                                errors_total |-> 0])
        total_events == t.moved_total + t.skipped_total
    IN [files_organized_total |-> t.moved_total,
        clutter_reduction |->
            IF total_events # 0 THEN RoundDiv(t.moved_total * 10000, total_events)
            ELSE 0,
        errors_logged |-> t.errors_total]

----------------------------------------------------------------------------
(* NameSpec: generate_non_overwriting_path applied to the literal name of
   every directory, under every set of existing files *)

(* dest_path = generate_non_overwriting_path(dest_dir / dest_filename) *)
GenerateName(t, d) ==
    /\ SetThread(t, [IdleThread EXCEPT
                        !.call = "name", !.src = <<d, 0>>,
                        !.dst = generate_non_overwriting_path(fs, <<d, 0>>),
                        !.result = "named"])
    /\ UNCHANGED <<fs, dirs, log, lockHolder, now, nextId, calls, envSteps,
                   cfgVars, extVars, docVars, watchVars>>

NameInit ==
    /\ fs \in [Paths -> {NoFile, File(1)}]
    /\ dirs = Dirs
    /\ log = <<>>
    /\ lockHolder = NoThread
    /\ th = [t \in Threads |-> IdleThread]
    /\ now = 0
    /\ nextId = 1
    /\ baseDir = HomeDest
    /\ relDest = "Misc"
    /\ calls = 0
    /\ envSteps = 0
    /\ LogFileInit
    /\ WatcherIdle
    /\ PollIdle
    /\ RulesLoaded

NameNext == \E d \in Dirs : GenerateName(Worker, d)

NameSpec == NameInit /\ [][NameNext]_vars

----------------------------------------------------------------------------
(* Properties *)

EntryIds == 1..(2 * MaxCalls + 2)

InMove(t) == th[t].pc \in {"mv_check", "mv_link", "mv_unlink", "mv_copy", "mv_data", "mv_rm"}

AfterMove(t) ==
    /\ th[t].pc \in {"lock", "write"}
    /\ th[t].op \in {"mark_completed", "mark_failed"}
    /\ th[t].res \in {"moved", "move_failed"}

HasMoveEntry(entries, id, src, dst) ==
    \E i \in 1..Len(entries) :
        /\ entries[i].id = id
        /\ entries[i].action = "move"
        /\ entries[i].source = src
        /\ entries[i].destination = dst

(* C1: whenever organize_file is inside the move primitive, or has left it and
   not yet returned, the persisted log holds the move entry of that call, with
   its source and destination. *)
C1_PlannedBeforeMove ==
    \A t \in Threads :
        (th[t].call = "organize" /\ (InMove(t) \/ AfterMove(t)))
            => HasMoveEntry(log, th[t].id, th[t].src, th[t].dst)

(* organize_file has linked the file to its destination and not yet removed the source *)
C1_Witness ==
    \E t \in Threads :
        /\ th[t].call = "organize"
        /\ th[t].pc = "mv_unlink"
        /\ Exists(fs, th[t].dst)

(* C2: every undo() call returns: a thread inside undo never waits for the
   ActivityLog lock while it is itself the holder of that lock (the lock is a
   threading.Lock, which its holder cannot take a second time). *)
C2_UndoReturns ==
    \A t \in Threads :
        ~(th[t].call = "undo" /\ th[t].pc = "lock" /\ lockHolder = t)

(* C3: no step replaces or alters the content of a file that exists: the only
   change to an existing file is the completion of the copy by the mover that
   created it; and a mover puts its file at the destination only in a step
   before which nothing was there. *)
C3_NoOverwrite ==
    [][/\ \A p \in Paths :
            (Exists(fs, p) /\ Exists(fs', p) /\ fs'[p] # fs[p])
                => (fs[p] = PartialFile(fs'[p].data) /\ fs'[p].full)
       /\ \A t \in Threads :
            ((th[t].pc = "mv_link" /\ th'[t].pc = "mv_unlink")
               \/ (th[t].pc = "mv_copy" /\ th'[t].pc = "mv_data"))
                => (~Exists(fs, th[t].dst) /\ Exists(fs', th[t].dst))]_vars

(* a mover is past the existence check and about to create its destination,
   and another file has appeared there meanwhile *)
C3_Witness ==
    \E t \in Threads :
        /\ th[t].pc \in {"mv_link", "mv_copy"}
        /\ Exists(fs, th[t].src)
        /\ Exists(fs, th[t].dst)
        /\ fs[th[t].dst] # fs[th[t].src]

StatusOf(entries, id) ==
    LET S == {i \in 1..Len(entries) : entries[i].id = id}
    IN IF S = {} THEN "absent" ELSE entries[CHOOSE i \in S : TRUE].status

(* C4: an entry that is completed or failed keeps that status in every later
   step; a planned entry changes only to completed or failed; and when
   organize_file returns after a move attempt its entry is completed if the
   move succeeded and failed otherwise. *)
C4_MarkedOnce ==
    [][/\ \A i \in 1..Len(log) :
            /\ i <= Len(log')
            /\ log[i].status \in {"completed", "failed"} => log'[i].status = log[i].status
            /\ log'[i].status \in {log[i].status, "completed", "failed"}
       /\ \A t \in Threads :
            (th[t].call = "organize" /\ th[t].id # 0 /\ th'[t].pc = "idle")
                => StatusOf(log', th[t].id) =
                      (IF th'[t].result = "moved" THEN "completed" ELSE "failed")]_vars

(* the log holds a move entry marked completed and a move entry marked failed *)
C4_Witness ==
    /\ \E i \in 1..Len(log) : log[i].action = "move" /\ log[i].status = "completed"
    /\ \E i \in 1..Len(log) : log[i].action = "move" /\ log[i].status = "failed"

(* C5: an undo() that has selected a completed move whose file is at the
   recorded destination eventually reports success, unless the environment
   touches the files. *)
C5_UndoRestores ==
    \A t \in Threads :
        (th[t].pc = "u_found" /\ envSteps = 0 /\ Exists(fs, th[t].snap[th[t].target].destination))
            ~> (th[t].result = "undone" \/ envSteps > 0)

(* C6: an undo() call that has selected an entry processes one undo step for
   it: an undo entry referring to the selected entry is recorded and resolved. *)
C6_OneStepPerCall ==
    \A t \in Threads : \A k \in EntryIds :
        (th[t].pc = "u_found" /\ th[t].snap[th[t].target].id = k)
            ~> (\E i \in 1..Len(log) :
                    /\ log[i].action = "undo"
                    /\ log[i].original_action_id = k
                    /\ log[i].status \in {"completed", "failed"})

(* C8: an undo() that has selected an entry whose destination file is missing
   records a failed undo entry for it. *)
C8_FailedUndoRecorded ==
    \A t \in Threads : \A k \in EntryIds :
        (/\ th[t].pc = "u_found"
         /\ th[t].snap[th[t].target].id = k
         /\ ~Exists(fs, th[t].snap[th[t].target].destination))
            ~> (\E i \in 1..Len(log) :
                    /\ log[i].action = "undo"
                    /\ log[i].original_action_id = k
                    /\ log[i].status = "failed")

(* C9: every step keeps every entry of the persisted log at its position,
   with its id, action type, source, destination and timestamp; the log never
   gets shorter. *)
C9_AppendOnly ==
    [][/\ Len(log') >= Len(log)
       /\ \A i \in 1..Len(log) :
            /\ log'[i].id = log[i].id
            /\ log'[i].action = log[i].action
            /\ log'[i].source = log[i].source
            /\ log'[i].destination = log[i].destination
            /\ log'[i].ts = log[i].ts
            /\ log'[i].original_action_id = log[i].original_action_id]_vars

(* the log holds two entries or more and the first, a move, has been marked *)
C9_Witness ==
    /\ Len(log) >= 2
    /\ log[1].action = "move"
    /\ log[1].status \in {"completed", "failed"}

(* inside a with self._lock block *)
InCriticalSection(t) ==
    \/ th[t].pc = "write"
    \/ th[t].call = "undo" /\ th[t].pc \notin {"idle", "u_lock"}

(* C10: at most one thread is inside a read-modify-write of the log document,
   it is the lock holder, and the document a thread is about to rewrite is
   still the one it read. *)
C10_LogMutualExclusion ==
    /\ \A t, u \in Threads : (InCriticalSection(t) /\ InCriticalSection(u)) => t = u
    /\ \A t \in Threads : th[t].pc = "write" => (lockHolder = t /\ th[t].snap = log)

(* one thread is between its read and its write of the log document while
   another waits for the lock *)
C10_Witness ==
    \E t, u \in Threads :
        /\ t # u
        /\ th[t].pc = "write"
        /\ th[u].pc \in {"lock", "u_lock"}

(* C11: the log document on disk is at all times a complete document; a step
   that changes it is the replacement step of a writer whose temporary file
   holds the whole new document, and it changes the document from the entry
   sequence the writer read to that sequence with the writer's modification
   applied.  So a kill of the process leaves the previous sequence or the new
   one. *)
C11_AtomicRewrite ==
    [][/\ logWhole'
       /\ log' # log =>
            \E t \in Threads :
                /\ th[t].pc = "w_replace"
                /\ th[t].snap = log
                /\ tmp = Doc(Payload(th[t]), TRUE)
                /\ log' = Payload(th[t])]_vars

(* the process has been killed in the middle of the write of the temporary
   file, while the log document holds entries *)
C11_Witness ==
    \E t \in Threads :
        /\ th[t].pc = "killed"
        /\ th[t].was = "w_text"
        /\ tmp.present
        /\ ~tmp.whole
        /\ Len(log) >= 1

(* where a thread is, or was when the process was killed *)
Position(t) == IF th[t].pc = "killed" THEN th[t].was ELSE th[t].pc

(* organize_file has appended its planned entry and has not yet written the outcome *)
PlannedNotMarked(t) ==
    /\ th[t].call = "organize"
    /\ th[t].id # 0
    /\ ~(th[t].op = "append" /\ Position(t) \in {"lock", "write"})

(* C12: at every moment between the append of the planned entry and the write
   of the outcome, also after a kill of the process, the log document holds
   the entry of the call with status planned and its source and destination;
   and a move entry that is completed belongs to no call that is still, or was
   when killed, before the end of its move. *)
C12_PlannedSurvivesKill ==
    /\ \A t \in Threads :
         PlannedNotMarked(t) =>
            \E i \in 1..Len(log) :
                /\ log[i].id = th[t].id
                /\ log[i].action = "move"
                /\ log[i].status = "planned"
                /\ log[i].source = th[t].src
                /\ log[i].destination = th[t].dst
    /\ \A i \in 1..Len(log) : \A t \in Threads :
         (log[i].action = "move" /\ log[i].status = "completed")
            => ~(PlannedNotMarked(t) /\ th[t].id = log[i].id)

(* the process has been killed while organize_file was copying the file: a
   partial file is at the destination *)
C12_Witness ==
    \E t \in Threads :
        /\ th[t].pc = "killed"
        /\ th[t].was = "mv_data"
        /\ th[t].call = "organize"
        /\ fs[th[t].dst] = PartialFile(th[t].data)

(* C13: as long as no other program has touched the files, for every entry
   with status completed and action move the source path holds no file and the
   destination path holds one. *)
C13_CompletedMeansMoved ==
    envSteps = 0 =>
        \A i \in 1..Len(log) :
            (log[i].action = "move" /\ log[i].status = "completed")
                => (~Exists(fs, log[i].source) /\ Exists(fs, log[i].destination))

(* a move has been marked completed while another call, for the same source,
   has had its own entry marked failed *)
C13_Witness ==
    /\ envSteps = 0
    /\ \E i, j \in 1..Len(log) :
         /\ log[i].action = "move" /\ log[i].status = "completed"
         /\ log[j].action = "move" /\ log[j].status = "failed"
         /\ log[j].source = log[i].source

(* the content of the source of mover t *)
MoverData(t) == IF t = "t1" THEN 1 ELSE 2

(* C14: of two movers with different sources and the same destination, a file
   once at the destination stays there with its content; and when both have
   returned, none of them on an I/O error of its copy, one has succeeded and
   the other has failed with FileExistsError: the destination holds the whole
   content of the winner's source, the winner's source is gone and the loser's
   source is in place with its content. *)
C14_OneWinner ==
    [][/\ \A d \in MoverDests :
            Exists(fs, d) => (Exists(fs', d) /\ fs'[d].data = fs[d].data)
       /\ (/\ \A t \in Threads :
                th'[t].pc = "idle" /\ th'[t].result \notin {"none", "OSError"}
           /\ th'["t1"].dst = th'["t2"].dst)
            => \E w, l \in Threads :
                  /\ w # l
                  /\ th'[w].result = "moved"
                  /\ th'[l].result = "FileExistsError"
                  /\ fs'[th'[w].dst].data = MoverData(w)
                  /\ fs'[th'[w].dst].full
                  /\ ~Exists(fs', MoverSource(w))
                  /\ fs'[MoverSource(l)] = File(MoverData(l))]_vars

(* both movers have passed the existence check for the same destination; one
   has created it and the other is about to try *)
C14_Witness ==
    \E w, l \in Threads :
        /\ w # l
        /\ th[w].pc \in {"mv_unlink", "mv_data"}
        /\ th[l].pc \in {"mv_link", "mv_copy"}
        /\ th[w].dst = th[l].dst
        /\ Exists(fs, th[w].dst)

(* _safe_move_file has removed the source and returned to organize_file *)
MoveDone(t) ==
    /\ th[t].call = "organize"
    /\ th[t].op = "mark_completed"
    /\ th[t].pc \in {"lock", "write"}

(* C15: when the move primitive has removed the source, and no other program
   has touched the files, the destination holds the complete content and the
   content has been synced to the disk. *)
C15_SourceDeletedAfterSync ==
    \A t \in Threads :
        (MoveDone(t) /\ envSteps = 0)
            => (/\ fs[th[t].dst].full
                /\ fs[th[t].dst].synced)

(* the move of organize_file has failed on an I/O error of the copy *)
CopyFailed(t) ==
    /\ th[t].call = "organize"
    /\ th[t].op = "mark_failed"
    /\ th[t].res = "move_failed"
    /\ th[t].arg.note = "OSError"
    /\ th[t].pc \in {"lock", "write"}

(* C16: when the move of organize_file has failed on an I/O error, and no
   other program has touched the files, no file is at the planned
   destination. *)
C16_FailedMoveLeavesNothing ==
    \A t \in Threads :
        (CopyFailed(t) /\ envSteps = 0) => ~Exists(fs, th[t].dst)

(* the skip entry of a call for source p that found the base destination
   outside the allow-list *)
IsBlockedSkip(e, p) ==
    /\ e.action = "skip"
    /\ e.status = "completed"
    /\ e.note = "base_destination_not_allowed"
    /\ e.source = p
    /\ e.destination = <<baseDir, 0>>

(* C17: with the base destination outside the allow-list, no step of the
   program creates a directory or changes a file, the log never holds a move
   entry, and a call of organize_file for a file that exists at the call
   returns failure having written the log once: one skip entry with reason
   base_destination_not_allowed is added. *)
C17_BlockedBaseDestination ==
    [][baseDir \notin AllowedRoots =>
        /\ dirs' = dirs
        /\ envSteps' = envSteps => fs' = fs
        /\ \A i \in 1..Len(log') : log'[i].action # "move"
        /\ \A t \in Threads :
             (th[t].pc = "idle" /\ th'[t].call = "organize" /\ th'[t].pc # "idle")
                => th'[t].res = (IF Exists(fs, th'[t].src) THEN "blocked" ELSE "missing")
        /\ \A t \in Threads :
             (th[t].call = "organize" /\ th[t].pc # "idle" /\ th'[t].pc = "idle")
                => /\ th'[t].result = th[t].res
                   /\ Len(log') = Len(log) + 1
                   /\ \A i \in 1..Len(log) : log'[i] = log[i]
                   /\ th[t].res = "blocked" => IsBlockedSkip(log'[Len(log')], th[t].src)
        /\ \A t \in Threads :
             (th'[t] # th[t] /\ th'[t].pc # "idle") => log' = log]_vars

(* organize_file has returned failure for a file that is still in the watched
   directory, and the log holds the skip entry *)
C17_Witness ==
    /\ baseDir \notin AllowedRoots
    /\ \E t \in Threads : th[t].pc = "idle" /\ th[t].result = "blocked"
    /\ Exists(fs, SourcePath)
    /\ \E i \in 1..Len(log) : IsBlockedSkip(log[i], SourcePath)

(* C18: no directory is ever created, and no file ever put, outside the
   allow-list roots. *)
C18_NothingOutsideAllowList ==
    /\ \A d \in dirs : d \in AllowedRoots
    /\ \A p \in Paths : Exists(fs, p) => p[1] \in AllowedRoots

(* handle_stable_file has written its event entry and has not returned *)
InHandler(r) ==
    /\ r.call = "handle"
    /\ ~(r.arg.action = "event" /\ r.pc \in {"lock", "write"})

(* C19: no exception leaves handle_stable_file; while it runs organize_file
   the log holds the event entry of the call, written before any entry of
   organize_file; and when organize_file has failed unexpectedly the call
   returns to the worker loop with one error entry added to the log. *)
C19_HandlerSwallows ==
    [][\A t \in Threads :
        /\ th'[t].result # "raised"
        /\ InHandler(th'[t]) =>
             \E i \in 1..Len(log') :
                /\ log'[i].id = th'[t].event
                /\ log'[i].action = "event"
                /\ log'[i].source = th'[t].src
                /\ \A j \in 1..Len(log') :
                     (th'[t].id # 0 /\ log'[j].id = th'[t].id) => j > i
        /\ (th[t].call = "handle" /\ th[t].res = "error_logged" /\ th'[t].pc = "idle")
             => /\ th'[t].result = "error_logged"
                /\ Len(log') = Len(log) + 1
                /\ log'[Len(log')].action = "error"
                /\ log'[Len(log')].source = th[t].src]_vars

(* organize_file has failed unexpectedly, the error entry is in the log, and
   the worker is back at the queue with another notification waiting *)
C19_Witness ==
    /\ th[Worker].pc = "idle"
    /\ th[Worker].result = "error_logged"
    /\ wqueue # <<>>
    /\ \E i \in 1..Len(log) : log[i].action = "error"

(* C20: on_stable_file is called at most once for a file. *)
C20_OneCallbackPerFile ==
    \A c \in DOMAIN cbCount : cbCount[c] <= 1

(* C21: a file whose size has not stayed unchanged for the stability window
   before the maximal wait is over gets no callback: the worker calls
   on_stable_file only for a file whose size has stayed unchanged for
   StabilityTicks polls, and before MaxWaitTicks polls have passed; when the
   wait is over the worker leaves the event and goes on with its loop, no
   callback is made and nothing is added to the log; and every wait ends. *)
C21_UnstableFileAbandoned ==
    /\ [][(wk.pc = "poll" /\ wk'.pc = "call")
              => (quiet >= StabilityTicks /\ wk.elapsed < MaxWaitTicks)]_vars
    /\ [][(wk.pc = "poll" /\ wk.elapsed >= MaxWaitTicks /\ wk' # wk)
              => (wk'.pc = "loop" /\ cbCount' = cbCount /\ log' = log)]_vars
    /\ (wk.pc = "poll") ~> (wk.pc # "poll")

(* the maximal wait is over for a file that is still being written *)
C21_Witness ==
    /\ wk.pc = "poll"
    /\ wk.elapsed >= MaxWaitTicks
    /\ ~stopEvent
    /\ wk.last_size # NoSize
    /\ quiet < StabilityTicks
    /\ cbCount[wk.path] = 0

(* C22: when stop() has returned the worker has ended; no notification that
   comes after stop() was called is put on the queue, and none leads to a
   callback. *)
C22_StopEndsWatching ==
    /\ stopPc = "returned" => wk.pc = "exited"
    /\ \A i \in 1..Len(wqueue) : ~wqueue[i].late
    /\ wk.pc = "call" => ~wk.late

(* the name matches one of the patterns of temporary files, whatever its case:
   the "~$" prefix, .DS_Store, Thumbs.db, or one of the five suffixes *)
TemporaryPattern(n) ==
    LET name == NameLower(n)
    IN \/ name[1] = "~$"
       \/ name = <<".ds_store">>
       \/ name = <<"thumbs", ".db">>
       \/ /\ Len(name) >= 2
          /\ name[Len(name)] \in {".tmp", ".part", ".crdownload", ".download", ".partial"}

(* C30: a notification for a file name that matches a temporary pattern is
   dropped at once: the name is never on the queue, its debounce timestamp is
   never set, the worker never waits for it and on_stable_file is never called
   for it. *)
C30_TemporaryDiscarded ==
    \A n \in PollNames :
        TemporaryPattern(n) =>
            /\ \A i \in 1..Len(wqueue) : wqueue[i].path # n
            /\ lastSeen[n] = 0
            /\ wk.path # n
            /\ cbCount[n] = 0

(* notifications have come, all for temporary names: nothing is queued, seen
   or called *)
C30_Witness ==
    /\ notified > 0
    /\ wqueue = <<>>
    /\ wk.pc \in {"loop", "get"}
    /\ \A n \in PollNames : lastSeen[n] = 0 /\ cbCount[n] = 0

(* the categories of the loaded rules *)
LoadedCategories ==
    IF rules.categories.list THEN rules.categories.items ELSE <<>>

(* the categories that are JSON objects and name a destination *)
NamedCategories ==
    {i \in 1..Len(LoadedCategories) :
        LoadedCategories[i].dict /\ LoadedCategories[i].destination # ""}

ScoreOf(i) == Score(LoadedCategories[i], file, rules.education_mode)

(* the categories with the highest score *)
TopCategories ==
    {i \in NamedCategories : \A j \in NamedCategories : ScoreOf(i) >= ScoreOf(j)}

(* C23: decide returns the category with the highest score among those that
   name a destination, the first declared of them when several have that
   score, with the score as confidence; when no category reaches MinScore, or
   there is none, it returns the fallback destination with confidence
   FallbackConfidence; the confidence is between 0 and MaxConfidence. *)
C23_BestCategoryWins ==
    (decision # NoDecision /\ rules.object) =>
        /\ decision.confidence \in 0..MaxConfidence
        /\ IF \E i \in NamedCategories : ScoreOf(i) >= MinScore
           THEN \E i \in TopCategories :
                    /\ \A j \in TopCategories : i <= j
                    /\ decision.category_name = <<"Category", i>>
                    /\ decision.destination_relative = LoadedCategories[i].destination
                    /\ decision.confidence = ScoreOf(i)
           ELSE /\ decision.category_name = <<"Fallback", 0>>
                /\ decision.confidence = FallbackConfidence
                /\ decision.destination_relative =
                       IF rules.fallback_destination = "" THEN "Misc"
                       ELSE rules.fallback_destination

(* two categories have the highest score and the first was returned *)
C23_Witness ==
    /\ decision # NoDecision
    /\ rules.object
    /\ TopCategories = {1, 2}
    /\ ScoreOf(1) >= MinScore
    /\ decision.category_name = <<"Category", 1>>

(* C24: decide returns a decision, a category or the fallback, whatever the
   loaded rules document is; it never raises. *)
C24_DecideNeverRaises ==
    decision # NoDecision =>
        /\ decision # Raised
        /\ decision.category_name[1] \in {"Category", "Fallback"}

(* C25: a reload that finds the rules document unreadable or unparsable sets
   the default rules and appends one error entry to the log. *)
C25_MalformedRulesLogged ==
    [][(reloads' = reloads + 1 /\ rulesFile.kind \in {"unreadable", "unparsable"})
           => /\ rules' = DefaultRules
              /\ Len(log') = Len(log) + 1
              /\ log'[Len(log')].action = "error"]_vars

CompletedMoves == {i \in 1..Len(log) : log[i].action = "move" /\ log[i].status = "completed"}

Skips == {i \in 1..Len(log) : log[i].action = "skip"}

(* C26: the moved total of compute_insights is the number of completed move
   entries of the log, and the clutter reduction is completed moves /
   (completed moves + skips) x 100, to the two decimals that are reported, and
   0 when the log has neither. *)
C26_InsightsCount ==
    LET ins == compute_insights(log)
        m == Cardinality(CompletedMoves)
        n == Cardinality(CompletedMoves) + Cardinality(Skips)
        diff == ins.clutter_reduction * n - m * 10000
    IN /\ ins.files_organized_total = m
       /\ IF n = 0 THEN ins.clutter_reduction = 0
          ELSE 2 * diff <= n /\ 2 * diff >= 0 - n

(* one completed move and two skips *)
C26_Witness ==
    /\ Cardinality(CompletedMoves) = 1
    /\ Cardinality(Skips) = 2
    /\ compute_insights(log).clutter_reduction = 3333

(* a completed move that is not undone, is not older than the undo window at
   the time of the call, and has its two paths *)
Qualifies(e, cutoff) ==
    /\ e.action = "move"
    /\ e.status = "completed"
    /\ ~e.undone
    /\ e.ts >= cutoff
    /\ e.source # NoPath
    /\ e.destination # NoPath

(* C28: the scan of undo selects the newest entry of the log that qualifies,
   so never an undo, skip, error or event entry, a planned or failed entry,
   or an entry older than the window; when no entry qualifies undo reports
   that there is nothing to undo, and the call changes neither the log nor
   the files. *)
C28_UndoSelectsNewest ==
    [][\A t \in Threads :
         /\ (th[t].pc = "u_lock" /\ th'[t] # th[t]) =>
              LET Q == {i \in 1..Len(log) : Qualifies(log[i], th[t].cutoff)}
              IN /\ log' = log
                 /\ fs' = fs
                 /\ IF Q = {}
                    THEN th'[t].pc = "u_ret" /\ th'[t].res = "nothing"
                    ELSE /\ th'[t].pc = "u_found"
                         /\ th'[t].target \in Q
                         /\ \A j \in Q : j <= th'[t].target
         /\ (th[t].pc = "u_ret" /\ th[t].res = "nothing" /\ th'[t] # th[t]) =>
              /\ th'[t].pc = "idle"
              /\ th'[t].result = "nothing"
              /\ log' = log
              /\ fs' = fs]_vars

(* undo has passed over a newer entry and selected an older one *)
C28_Witness ==
    \E t \in Threads :
        /\ th[t].pc = "u_found"
        /\ th[t].target < Len(th[t].snap)
        /\ th[t].snap[th[t].target].action = "move"

(* C27: an undo() that has selected the completed move k, with the file at
   the recorded destination, ends with both entries in the log, unless it
   reports a failure or the environment touches the files: the move entry k
   has undone = true and undo_action_id the id of an undo entry, which is
   completed and has original_action_id = k. *)
C27_UndoLeavesBothEntries ==
    \A t \in Threads : \A k \in EntryIds :
        (/\ th[t].pc = "u_found"
         /\ th[t].snap[th[t].target].id = k
         /\ envSteps = 0
         /\ Exists(fs, th[t].snap[th[t].target].destination))
            ~> (\/ envSteps > 0
                \/ th[t].result = "undo_failed"
                \/ \E i, j \in 1..Len(log) :
                       /\ log[i].id = k
                       /\ log[i].action = "move"
                       /\ log[i].undone
                       /\ log[i].undo_action_id = log[j].id
                       /\ log[j].action = "undo"
                       /\ log[j].status = "completed"
                       /\ log[j].original_action_id = k)

(* C29: when the copy of the move primitive fails after it has created the
   destination, no file is at the destination once the move has raised. *)
C29_PartialDestinationRemoved ==
    [][\A t \in Threads :
         (th[t].pc = "mv_data" /\ th'[t].pc = "idle" /\ th'[t].result = "OSError")
             => ~Exists(fs', th[t].dst)]_vars

(* C35: the generated path is the desired path when nothing is there; else
   the variant of the smallest number from 1 below ProbeLimit that does not
   exist; the variant ProbeLimit, which stands for the process id, only when
   all of them exist; and a path returned for a number below ProbeLimit, or
   the desired path itself, does not exist. *)
C35_SmallestFreeName ==
    \A t \in Threads :
        th[t].call = "name" =>
            LET p == th[t].src
                r == th[t].dst
                free == {n \in 1..(ProbeLimit - 1) : ~Exists(fs, <<p[1], n>>)}
            IN /\ r[1] = p[1]
               /\ ~Exists(fs, p) => r = p
               /\ (Exists(fs, p) /\ free # {}) =>
                     (r[2] \in free /\ \A n \in free : r[2] <= n)
               /\ (Exists(fs, p) /\ free = {}) => r[2] = ProbeLimit
               /\ r[2] < ProbeLimit => ~Exists(fs, r)

(* the desired name exists, two numbered names are free and the smaller one
   was returned *)
C35_Witness ==
    \E t \in Threads :
        /\ th[t].call = "name"
        /\ Exists(fs, th[t].src)
        /\ \A n \in 1..2 : ~Exists(fs, <<th[t].src[1], n>>)
        /\ th[t].dst = <<th[t].src[1], 1>>

(* the keywords of the category, each once, that the name of the file holds *)
DistinctHits(cat, f) ==
    IF cat.keywords.list
    THEN {cat.keywords.items[i] : i \in 1..Len(cat.keywords.items)} \cap f.contains
    ELSE {}

(* the score as stated: 35 for the extension, min(55, 20 + 12 x hits) for
   hits > 0 distinct keywords, 8 for the domain mode *)
StatedScore(cat, f, education_mode) ==
    LET hits == Cardinality(DistinctHits(cat, f))
    IN (IF cat.extensions.list /\ f.ext # "" /\ f.ext \in cat.extensions.items
        THEN 35 ELSE 0)
       + (IF hits > 0 THEN Min2(55, 20 + 12 * hits) ELSE 0)
       + (IF education_mode /\ f.edu_token THEN 8 ELSE 0)

(* C34: the score decide gives a category for the file is the stated score,
   in which a keyword listed twice counts once. *)
C34_ScoreFormula ==
    (decision # NoDecision /\ rules.object) =>
        \A i \in 1..Len(LoadedCategories) :
            LoadedCategories[i].dict =>
                ScoreOf(i) = StatedScore(LoadedCategories[i], file, rules.education_mode)

(* C32: the worker goes on to the callback only from a poll that finds the size
   it has recorded, with a stability window that began StabilityTicks polls
   before and a file that has not changed for as long; a poll that finds
   another size records it, drops the window and goes on polling; a poll that
   finds no file while the wait is not over goes on polling. *)
C32_CallbackAfterStableWindow ==
    /\ [][(wk.pc = "poll" /\ wk'.pc = "call")
              => /\ fsize # NoSize
                 /\ wk.last_size = fsize
                 /\ wk'.stable_since # NoTime
                 /\ wk.elapsed - wk'.stable_since >= StabilityTicks
                 /\ quiet >= StabilityTicks]_vars
    /\ [][(/\ wk.pc = "poll"
           /\ wk' # wk
           /\ wk.elapsed < MaxWaitTicks
           /\ ~stopEvent
           /\ fsize # NoSize
           /\ fsize # wk.last_size)
              => /\ wk'.pc = "poll"
                 /\ wk'.last_size = fsize
                 /\ wk'.stable_since = NoTime]_vars
    /\ [][(/\ wk.pc = "poll"
           /\ wk' # wk
           /\ wk.elapsed < MaxWaitTicks
           /\ ~stopEvent
           /\ fsize = NoSize)
              => /\ wk'.pc = "poll"
                 /\ wk'.elapsed = wk.elapsed + 1]_vars

(* the callback comes after a window that began later than the second poll:
   an earlier poll found no file or a size that had changed *)
C32_Witness ==
    /\ wk.pc = "call"
    /\ wk.last_size >= 1
    /\ wk.stable_since >= 2
    /\ wk.elapsed - wk.stable_since >= StabilityTicks

(* C33: the handoff queue is bounded: the number of queued events stays under
   a bound that the number of notifications delivered does not reach; here,
   the queue never holds as many events as MaxNotify notifications. *)
C33_QueueBounded ==
    Len(wqueue) < MaxNotify

(* the notification the observer has delivered last was for the name n *)
Delivered(n) == notified' = notified + 1 /\ th'[Observer].src = n

(* the queue items for the name n *)
QueuedFor(n) == {i \in 1..Len(wqueue) : wqueue[i].path = n}

(* C31: a notification for a path that comes less than the debounce window
   after the last one seen for the path is not put on the queue and sets the
   last-seen time of the path to its own time; one that comes a window or more
   after it is put on the queue with its time; so two events of one path on
   the queue are a window or more apart. *)
C31_DebounceRefreshes ==
    /\ [][\A n \in NotifyNames :
            (Delivered(n) /\ ~is_temporary_file(n)) =>
                /\ lastSeen'[n] = wclock
                /\ IF wclock - lastSeen[n] < DebounceSeconds * TicksPerSecond
                   THEN wqueue' = wqueue
                   ELSE /\ Len(wqueue') = Len(wqueue) + 1
                        /\ wqueue'[Len(wqueue')].path = n
                        /\ wqueue'[Len(wqueue')].evt.ts = wclock]_vars
    /\ [](\A n \in NotifyNames : \A i, j \in QueuedFor(n) :
            i < j => wqueue[j].evt.ts - wqueue[i].evt.ts >= DebounceSeconds * TicksPerSecond)

(* three notifications for one path, each less than a window after the one
   before: the first is on the queue, and the last-seen time of the path is a
   window or more after it *)
C31_Witness ==
    /\ notified = 3
    /\ Len(wqueue) = 1
    /\ wqueue[1].path = RegularName
    /\ lastSeen[RegularName] - wqueue[1].evt.ts >= DebounceSeconds * TicksPerSecond
    /\ wk.pc = "loop"
    /\ \A n \in NotifyNames : cbCount[n] = 0

(* the events that are on the queue or with the worker *)
EventsInHand ==
    {wqueue[i] : i \in 1..Len(wqueue)} \cup
        (IF wk.pc \in {"poll", "call"}
         THEN {[path |-> wk.path, evt |-> wk.evt, late |-> wk.late]}
         ELSE {})

(* C37: of a moved notification the watcher checks, debounces, polls and
   hands to the callback the prior path, and keeps the new path as dest_path
   of the event only: the new name is never seen, queued, polled or called
   for, and a move from a temporary name leaves nothing behind. *)
C37_MovedUsesPriorPath ==
    /\ \A e \in EventsInHand :
          /\ e.path # RenamedName
          /\ ~is_temporary_file(e.path)
          /\ e.evt.path = e.path
          /\ e.evt.event_type = "moved" => e.evt.dest_path = RenamedName
          /\ e.evt.event_type # "moved" => e.evt.dest_path = NoName
    /\ lastSeen[RenamedName] = 0
    /\ cbCount[RenamedName] = 0
    /\ lastSeen[TempName] = 0
    /\ cbCount[TempName] = 0

(* the worker is about to call on_stable_file with the prior path of a move,
   and the move from the temporary name that was delivered last has left
   nothing on the queue *)
C37_Witness ==
    /\ wk.pc = "call"
    /\ wk.path = RegularName
    /\ wk.evt.event_type = "moved"
    /\ wk.evt.dest_path = RenamedName
    /\ th[Observer].call = "moved"
    /\ th[Observer].src = TempName
    /\ th[Observer].dst = RenamedName
    /\ notified = 2
    /\ wqueue = <<>>

(* C36: every event that is on the queue is in the end taken off it by the
   worker, and the worker comes back from every event it has taken. *)
C36_QueuedEventsProcessed ==
    /\ (wqueue # <<>>) ~> (wqueue = <<>>)
    /\ (th[Worker].pc # "idle") ~> (th[Worker].pc = "idle")

====
